---- MODULE Spec2Model ----
(***************************************************************************)
(* Catalog reconciliation of the movie scanner: the scan task              *)
(* (MovieScannerTMDbService.scanMovies / processMovieFile), the retry pass *)
(* (RetryErrorsTask.execute), the SQLite-backed MovieRepository, the file  *)
(* renamer and the task triggers (cron scheduler, POST /movies/api/scan).  *)
(*                                                                         *)
(* Every `await` of the asynchronous code is a point where another task   *)
(* may run; an item of a scan is therefore processed in two steps, the    *)
(* catalog lookup (BeginItem) and the part after the first remote call    *)
(* (FinishItem).                                                           *)
(***************************************************************************)
EXTENDS Integers, Sequences, FiniteSets, TLC

\* ---------------------------------------------------------------- bounds
NumRaw == 1          \* messily named movie files the user may drop
NumMeta == 1         \* distinct works the metadata provider knows
NumTV == 1           \* TV series folders
MaxTasks == 2        \* tasks (scans, retry passes) started in one run
MaxFsChanges == 2    \* user changes to the library between tasks
MaxScans == 2        \* invocations of scanMovies in progress together

\* ------------------------------------------------------- program constants
LLM_CONFIDENCE_THRESHOLD == 70   \* llmConfidenceThreshold = 0.7, in percent
FUZZY_MIN_CONFIDENCE == 80       \* fuzzyResult.confidence >= 0.8, in percent

\* ------------------------------------------------------------------ paths
RawPaths == {<<"raw", i>> : i \in 1..NumRaw}
TVPaths == {<<"tv", i>> : i \in 1..NumTV}
Paths == RawPaths \cup {<<"canon", m>> : m \in 1..NumMeta} \cup TVPaths
NoPath == <<"none", 0>>

\* The order in which readdirSync lists the entries of the library, and so
\* the order of allMovieFiles: by name
Rank(p) == (IF p[1] = "canon" THEN 0 ELSE IF p[1] = "raw" THEN 100 ELSE 200) + p[2]

\* FileScanner.scanRecursive sets isTVSeries on folders isTVSeriesFolder accepts
isTVSeries(p) == p[1] = "tv"

\* "{Title} ({Year}) (IMDB {Rating}){ext}" in the directory of the item
buildFileName(m) == <<"canon", m>>

\* Invocations of scanMovies that can be in progress together (each has its
\* own result and currentPaths); a new invocation takes the lowest free slot
ScanTriggers == 1..MaxScans

VARIABLES fs, db, nextId, clock, scan, retry, fsChanges, quiet

\* A call of TitleMatcherService.areSameMovie on its own: its arguments and
\* what it returned
VARIABLE matcher

\* The media organizer: the library it is run on (the names at the root and
\* in its one folder), the Folder tree of the run, the parsedItem of every
\* node, the memoized lookups of its FileScanner, and the run itself
VARIABLES lib, tree, items, caches, org

\* The metadata lookups of processMovieFile on their own: the files of one
\* scan looked up so far and the searchMovie calls made for them
VARIABLE lookup

\* The catalog, the library and the tasks
catalog == <<fs, db, nextId, clock, scan, retry, fsChanges, quiet>>

organizer == <<lib, tree, items, caches, org>>

\* A call of TMDbService.findBestMatch on its own: the results of the
\* provider, the title and year searched for, and the id of the result it
\* returns
VARIABLE resolver

\* A call of TitleMatcherService.areSameMovie on two titles given as strings:
\* the titles, the option useLLM and the result
VARIABLE titles

\* A call of MovieNameParser: the file name cleaned, its clean name, the clean
\* name of that clean name, the name built by buildFileName and whether the
\* pattern of processed files recognizes it
VARIABLE parser

\* The parts of the program that are also run on their own
units == <<lookup, resolver, titles, parser>>

vars == <<fs, db, nextId, clock, scan, retry, fsChanges, quiet, matcher,
          lib, tree, items, caches, org, lookup, resolver, titles,
          parser>>

\* ------------------------------------------------------------- repository
None == [id |-> 0]

findByPath(d, p) ==
  IF \E e \in d : e.currentPath = p
    THEN CHOOSE e \in d : e.currentPath = p
    ELSE None

findAll(d, st) == {e \in d : e.status = st}

\* The table without its UNIQUE(current_path) constraint
UniqueCurrentPathOff(d, id, p) == TRUE

\* UNIQUE(current_path): no other row has the path
UniqueCurrentPath(d, id, p) == \A e \in d : e.id # id => e.currentPath # p

create(d, m) == d \cup {m}

update(d, id, patch) ==
  {IF e.id = id
     THEN [f \in DOMAIN e |-> IF f \in DOMAIN patch THEN patch[f] ELSE e[f]]
     ELSE e : e \in d}

\* A delete that removes the row instead of marking it
markAsDeletedPhysical(d, p, t) == {e \in d : e.currentPath # p}

markAsDeleted(d, p, t) ==
  {IF e.currentPath = p
     THEN [e EXCEPT !.status = "deleted", !.updatedAt = t]
     ELSE e : e \in d}

delete(d, id) == {e \in d : e.id # id}

getAllActivePaths(d) == {e.currentPath : e \in findAll(d, "active")}

RECURSIVE markAll(_, _, _)
markAll(d, gone, t) ==
  IF gone = {} THEN d
  ELSE LET p == CHOOSE x \in gone : TRUE
       IN markAll(markAsDeleted(d, p, t), gone \ {p}, t)

\* The membership test of markDeletedMovies inverted
NotInScanInverted(d, currentPaths) == getAllActivePaths(d) \cap currentPaths

\* The active paths markDeletedMovies does not find in currentPaths
NotInScan(d, currentPaths) == getAllActivePaths(d) \ currentPaths

markDeletedMovies(d, currentPaths, t) ==
  [db |-> markAll(d, NotInScan(d, currentPaths), t),
   deletedCount |-> Cardinality(NotInScan(d, currentPaths))]

\* ---------------------------------------------------------------- renamer
\* A rename without the existsSync pre-check: renameSync replaces the
\* destination
renameFileOverwrite(f, oldPath, newPath) ==
  IF oldPath \notin f
    THEN [success |-> FALSE, error |-> "ENOENT", fs |-> f]
    ELSE [success |-> TRUE, error |-> "none",
          fs |-> (f \ {oldPath}) \cup {newPath}]

\* existsSync(newPath) answers before renameSync runs; both are synchronous
renameFile(f, oldPath, newPath) ==
  IF newPath \in f
    THEN [success |-> FALSE, error |-> "already exists", fs |-> f]
    ELSE IF oldPath \notin f
      THEN [success |-> FALSE, error |-> "ENOENT", fs |-> f]
      ELSE [success |-> TRUE, error |-> "none",
            fs |-> (f \ {oldPath}) \cup {newPath}]

\* ---------------------------------------------------- title match validator
\* What the four tiers see of a pair of titles: byte equality, the result of
\* the normalized comparison (0, 85 containment, 95 equality), the fuzzy
\* word-overlap confidence and the answer of the LLM collaborator.
TitleRelations ==
  { [exact |-> TRUE,  norm |-> 95, fuzzy |-> 100, llmSame |-> TRUE,  llmConf |-> 90],
    [exact |-> FALSE, norm |-> 95, fuzzy |-> 100, llmSame |-> TRUE,  llmConf |-> 90],
    [exact |-> FALSE, norm |-> 85, fuzzy |-> 50,  llmSame |-> TRUE,  llmConf |-> 90],
    [exact |-> FALSE, norm |-> 0,  fuzzy |-> 80,  llmSame |-> FALSE, llmConf |-> 90],
    [exact |-> FALSE, norm |-> 0,  fuzzy |-> 50,  llmSame |-> TRUE,  llmConf |-> 90],
    [exact |-> FALSE, norm |-> 0,  fuzzy |-> 50,  llmSame |-> TRUE,  llmConf |-> 70],
    [exact |-> FALSE, norm |-> 0,  fuzzy |-> 50,  llmSame |-> TRUE,  llmConf |-> 50],
    [exact |-> FALSE, norm |-> 0,  fuzzy |-> 0,   llmSame |-> FALSE, llmConf |-> 90] }

isNormalizedMatch(r) ==
  [isMatch |-> r.norm > 0, confidence |-> r.norm, method |-> "normalized"]

isFuzzyMatch(r) ==
  [isMatch |-> r.fuzzy >= FUZZY_MIN_CONFIDENCE, confidence |-> r.fuzzy,
   method |-> "fuzzy"]

isLLMMatch(r) ==
  [isMatch |-> r.llmSame, confidence |-> r.llmConf, method |-> "llm"]

areSameMovie(r, useLLM, llmConfidenceThreshold) ==
  IF r.exact
    THEN [isMatch |-> TRUE, confidence |-> 100, method |-> "exact"]
  ELSE IF isNormalizedMatch(r).isMatch
    THEN isNormalizedMatch(r)
  ELSE IF isFuzzyMatch(r).isMatch /\ isFuzzyMatch(r).confidence >= FUZZY_MIN_CONFIDENCE
    THEN isFuzzyMatch(r)
  ELSE IF useLLM
    THEN IF isLLMMatch(r).isMatch /\ isLLMMatch(r).confidence >= llmConfidenceThreshold
           THEN isLLMMatch(r)
           ELSE isLLMMatch(r)
  ELSE [isMatch |-> FALSE, confidence |-> isFuzzyMatch(r).confidence,
        method |-> "fuzzy"]

\* simpleNormalize(cleanName) === simpleNormalize(movieData.title)
directNormalizedMatch(r) == r.exact \/ r.norm = 95

\* What the resolver and the validator report for one item:
\*   cand         the candidate of the metadata provider, 0 for none
\*   rel          how the parsed title relates to the candidate's title
\*   other        a comparison without LLM against the original or translated
\*                title matched (tiers 1-3)
\*   nonEnglish   detectLanguage(cleanName) # 'en'
\*   yearMatches  the parsed year is within one of the candidate's year
\*   posterUrl    the candidate comes with a poster
\* titleMatchesOriginal || nonEnglishWithYearMatch
TitleAccepted(o) ==
  \/ directNormalizedMatch(o.rel)
  \/ areSameMovie(o.rel, TRUE, LLM_CONFIDENCE_THRESHOLD).isMatch
  \/ o.other
  \/ o.nonEnglish /\ o.yearMatches

\* isMatch=true from tiers 1-3, or from tier 4 at or above its threshold
Validated(o) ==
  LET v == areSameMovie(o.rel, TRUE, LLM_CONFIDENCE_THRESHOLD)
  IN \/ directNormalizedMatch(o.rel)
     \/ o.other
     \/ v.isMatch /\ (v.method # "llm" \/ v.confidence >= LLM_CONFIDENCE_THRESHOLD)

NoMatchResult == [isMatch |-> FALSE, confidence |-> 0, method |-> "none"]

IdleMatcher ==
  [pc |-> "idle", rel |-> CHOOSE r \in TitleRelations : r.exact,
   useLLM |-> TRUE, llmConfidenceThreshold |-> LLM_CONFIDENCE_THRESHOLD,
   result |-> NoMatchResult]

\* ---------------------------------------------------------- catalog entries
Movie(id, path, finalPath, status, title, meta, genre, poster, err, t) ==
  [id |-> id, originalPath |-> path, currentPath |-> finalPath,
   status |-> status, title |-> title, meta |-> meta, genre |-> genre,
   poster |-> poster, errorMessage |-> err,
   lastScanned |-> t, updatedAt |-> t]

\* createErrorMovie: an entry already at the path is turned into an error
\* entry in place, otherwise an error entry is inserted
createErrorMovie(d, p, id, errorMessage, t) ==
  IF findByPath(d, p).id # 0
    THEN [db |-> update(d, findByPath(d, p).id,
                        [errorMessage |-> errorMessage, status |-> "error",
                         lastScanned |-> t, updatedAt |-> t]),
          inserted |-> FALSE, id |-> findByPath(d, p).id]
    ELSE [db |-> create(d, Movie(id, p, p, "error", "file", 0, "none", FALSE,
                                 errorMessage, t)),
          inserted |-> TRUE, id |-> id]

\* createTVSeriesEntry: tvPoster says whether searchTV returned a poster
createTVSeriesEntry(d, p, id, tvPoster, t) ==
  IF findByPath(d, p).id # 0
    THEN [db |-> update(d, findByPath(d, p).id,
                        IF tvPoster
                          THEN [title |-> "parsed", poster |-> TRUE,
                                lastScanned |-> t, updatedAt |-> t]
                          ELSE [title |-> "parsed",
                                lastScanned |-> t, updatedAt |-> t]),
          inserted |-> FALSE, id |-> findByPath(d, p).id]
    ELSE [db |-> create(d, Movie(id, p, p, "active", "parsed", 0, "TV Series",
                                 tvPoster, "none", t)),
          inserted |-> TRUE, id |-> id]

\* A refresh that writes the whole re-resolved record back
RefreshMoviePatchAll(e, found, t) ==
  [poster |-> (e.poster \/ found), meta |-> 0, title |-> "file",
   lastScanned |-> t, updatedAt |-> t]

\* The refresh of an active movie entry: the poster is searched again when
\* the entry has none; found says whether the search returned one.
RefreshMoviePatch(e, found, t) ==
  [poster |-> (e.poster \/ found), lastScanned |-> t, updatedAt |-> t]

\* The refresh of an active entry. For a TV series (processMovieFile, TV
\* branch) hasPoster is the poster file on disk, tv the answer of searchTV.
RefreshPatch(e, p, hasPoster, tv, found, t) ==
  IF ~(isTVSeries(p) \/ e.genre = "TV Series")
    THEN RefreshMoviePatch(e, found, t)
  ELSE IF (~hasPoster \/ ~e.poster) /\ tv = "poster"
    THEN [title |-> "tmdb", poster |-> TRUE, lastScanned |-> t, updatedAt |-> t]
  ELSE IF e.title # "parsed"
    THEN [title |-> IF tv = "none" THEN "parsed" ELSE "tmdb",
          lastScanned |-> t, updatedAt |-> t]
  ELSE [lastScanned |-> t, updatedAt |-> t]

\* ----------------------------------------------------------- scan, state
NoLast == [path |-> NoPath, how |-> "none", cand |-> 0, validated |-> FALSE,
           renamed |-> FALSE, id |-> 0]

\* pc          idle, items (the loop over allMovieFiles), resolve (inside
\*             processMovieFile, after the lookup), done (scanMovies returned)
\* todo        the files of allMovieFiles not yet visited
\* currentPaths, result   as in scanMovies
\* cur         the item processMovieFile is working on
\* The other fields record what the scan saw and did, for the properties:
\* visited, second (nothing changed on disk since a scan completed),
\* startActive / startMissing (ids active at the start, and those of them
\* whose path was not on disk), firstId (the next row id at the start),
\* purged (ids removed physically), failed (files whose processing threw),
\* marked (markDeletedMovies ran), stale (the entry removed for cur), last
\* (what the last item ended as), rootUnreadable (the scan root could not be
\* read when the scan listed it). result is a ScanResult.
IdleScan ==
  [pc |-> "idle", todo |-> {}, visited |-> {}, currentPaths |-> {},
   cur |-> NoPath, result |-> [created |-> 0, deleted |-> 0, errors |-> 0], second |-> FALSE,
   startActive |-> {}, startMissing |-> {}, firstId |-> 0, purged |-> {},
   failed |-> {}, marked |-> FALSE, stale |-> None, last |-> NoLast,
   rootUnreadable |-> FALSE]

\* last records, for the properties, the entry the pass turned active last
\* and what processMovieFile decides for the same file and candidate
IdleRetry ==
  [pc |-> "idle", errorMovies |-> {},
   last |-> [id |-> 0, accepted |-> FALSE, validated |-> FALSE]]

\* ------------------------------------------- the media organizer at rest
MaxOrganizeRuns == 2 \* calls of organizeDirectory on one MediaOrganizerService

\* No folder in the library
NoFolder == [name |-> <<"folder", "none">>, entries |-> {}]

\* buildFolderStructure returned null for the folder
NoTreeFolder == [name |-> <<"folder", "none">>, files |-> {}, rip |-> FALSE]

NoTree == [loaded |-> FALSE, files |-> {}, sub |-> NoTreeFolder]


\* A node whose parsedItem is undefined
NoItem == [name |-> <<"none", "none">>, itemType |-> "none"]

\* The Maps of FileScanner, each a set of <<key, value>> pairs. They are
\* fields of the FileScanner the MediaOrganizerService creates in its
\* constructor.
EmptyCaches ==
  [tmdbMovie |-> {}, tmdbTV |-> {}, kinopoisk |-> {}, transliteration |-> {},
   folderAnalysis |-> {}]

\* A MediaOrganizerService after its constructor, with nothing to organize
NewOrganizer ==
  /\ lib = [root |-> {}, folder |-> NoFolder]
  /\ tree = NoTree
  /\ items = << >>
  /\ caches = EmptyCaches
  /\ org = [pc |-> "idle", todo |-> << >>, runs |-> 0, renamed |-> {}]

\* ------------------------------------------ the metadata lookups at rest
MaxLookupFiles == 2  \* files looked up in one scan

\* The clean names the AI parser returns for the files, and their year
LookupTitles == {"Brat", "Brother", "Alien"}

LookupYears == {1979, 1997}

\* No scan in progress, no searchMovie call made
IdleLookup ==
  [pc |-> "idle", files |-> 0, asked |-> [k \in LookupTitles \X LookupYears |-> 0],
   found |-> FALSE]

\* ------------------------------------------------ the name parser, at rest
\* No call of MovieNameParser in progress
IdleParser ==
  [pc |-> "idle", fileName |-> << >>, cleanName |-> << >>, again |-> << >>,
   built |-> << >>, recognized |-> FALSE]

\* No call of findBestMatch, of areSameMovie on two titles or of
\* MovieNameParser in progress, and no scan looking files up
UnitsIdle ==
  /\ lookup = IdleLookup
  /\ resolver = [pc |-> "idle", results |-> << >>, searchTitle |-> << >>,
                 searchYear |-> 0, bestMatch |-> 0]
  /\ titles = [pc |-> "idle", title1 |-> << >>, title2 |-> << >>,
               useLLM |-> FALSE, result |-> NoMatchResult]
  /\ parser = IdleParser

\* A new installation: an empty catalog over a library of files and series
\* folders nothing has renamed yet
Init ==
  /\ fs \in SUBSET (RawPaths \cup TVPaths)
  /\ db = {}
  /\ nextId = 1
  /\ clock = 0
  /\ scan = [s \in ScanTriggers |-> IdleScan]
  /\ retry = IdleRetry
  /\ fsChanges = 0
  /\ quiet = FALSE
  /\ matcher = IdleMatcher
  /\ NewOrganizer
  /\ UnitsIdle

NoTaskRunning == retry.pc = "idle" /\ \A s \in ScanTriggers : scan[s].pc = "idle"

\* FileScanner.scanDirectory: the files and folders under the root. A root
\* that does not exist gives the empty list after a warning, and so does a
\* root readdirSync fails on, whose error scanRecursive catches and logs.
scanDirectory(f, readable) == IF readable THEN f ELSE {}

\* scanMovies up to the loop: the snapshot of the library
LoadLibrary(s, readable) ==
  /\ scan[s].pc = "idle"
  /\ \A x \in ScanTriggers : x < s => scan[x].pc # "idle"
  /\ clock < MaxTasks
  /\ clock' = clock + 1
  /\ scan' = [scan EXCEPT ![s] =
       [IdleScan EXCEPT !.pc = "items", !.todo = scanDirectory(fs, readable),
          !.second = quiet, !.rootUnreadable = ~readable,
          !.firstId = nextId,
          !.startActive = {e.id : e \in findAll(db, "active")},
          !.startMissing = {e.id : e \in {x \in findAll(db, "active") :
                                           x.currentPath \notin fs}}]]
  /\ quiet' = FALSE
  /\ UNCHANGED <<units, lib, tree, items, caches, org, matcher, fs, db, nextId, retry, fsChanges>>

StartScan(s) == LoadLibrary(s, TRUE)

\* A scan that starts while its root cannot be read (the disk is not
\* mounted, the directory is not readable)
StartScanRootUnreadable(s) == LoadLibrary(s, FALSE)

\* A loop without the try/catch: the exception ends scanMovies
OnItemErrorAbort == "done"

\* The catch block of the loop in scanMovies: count the error, go on with
\* the next file
OnItemError == "items"

\* The old entry left in place
PurgeStaleKeep(d, existing) == d

\* What processMovieFile does with the entry it found in error or deleted
\* status: it is removed
PurgeStale(d, existing) ==
  IF existing.id # 0 THEN delete(d, existing.id) ELSE d

\* One turn of the loop up to the first await of processMovieFile: the
\* lookup, and for an active entry the whole refresh
BeginItem(s) ==
  /\ scan[s].pc = "items"
  /\ scan[s].todo # {}
  /\ LET p == CHOOSE x \in scan[s].todo : \A q \in scan[s].todo : Rank(x) <= Rank(q) IN
       LET existing == findByPath(db, p)
           sc == [scan[s] EXCEPT !.todo = @ \ {p}, !.visited = @ \cup {p},
                    !.currentPaths = @ \cup {p}]
       IN IF existing.id # 0 /\ existing.status = "active"
            THEN \E hasPoster \in BOOLEAN, tv \in {"none", "noposter", "poster"},
                    found \in BOOLEAN :
                   /\ db' = update(db, existing.id,
                                   RefreshPatch(existing, p, hasPoster, tv, found, clock))
                   /\ scan' = [scan EXCEPT ![s] =
                        [sc EXCEPT !.cur = NoPath,
                           !.stale = None,
                           !.last = [NoLast EXCEPT !.path = p, !.how = "refreshed",
                                       !.id = existing.id]]]
            ELSE /\ db' = PurgeStale(db, existing)
                 /\ scan' = [scan EXCEPT ![s] =
                      [sc EXCEPT !.pc = "resolve", !.cur = p, !.stale = existing,
                         !.purged = IF existing.id # 0 THEN @ \cup {existing.id} ELSE @,
                         !.last = NoLast]]
  /\ UNCHANGED <<units, lib, tree, items, caches, org, matcher, fs, nextId, clock, retry, fsChanges, quiet>>

\* The item ends as an error entry (demo file, TV episode, audio file, no
\* candidate, title mismatch)
Quarantine(s, cand, errorMessage) ==
  LET p == scan[s].cur
      r == createErrorMovie(db, p, nextId, errorMessage, clock)
  IN /\ db' = r.db
     /\ nextId' = IF r.inserted THEN nextId + 1 ELSE nextId
     /\ fs' = fs
     /\ scan' = [scan EXCEPT ![s] =
          [@ EXCEPT !.pc = "items", !.result.errors = @ + 1,
             !.last = [NoLast EXCEPT !.path = p, !.how = "quarantined",
                         !.cand = cand, !.id = r.id]]]

\* The item is a TV series folder
TrackSeries(s, tvPoster) ==
  LET p == scan[s].cur
      r == createTVSeriesEntry(db, p, nextId, tvPoster, clock)
  IN /\ db' = r.db
     /\ nextId' = IF r.inserted THEN nextId + 1 ELSE nextId
     /\ fs' = fs
     /\ scan' = [scan EXCEPT ![s] =
          [@ EXCEPT !.pc = "items", !.result.created = @ + 1,
             !.last = [NoLast EXCEPT !.path = p, !.how = "created", !.id = r.id]]]

\* An entry that never carries the rename error
RenameErrorDropped(renameResult, alreadyCorrectName) == "none"

\* errorMessage of the new entry: the error of the rename, unless the file
\* already had the canonical name
RenameErrorMessage(renameResult, alreadyCorrectName) ==
  IF renameResult.success \/ alreadyCorrectName
    THEN "none" ELSE renameResult.error

\* A scan that leaves currentPaths as it is after a rename
movePathSkipped(currentPaths, renameResult, p, finalPath) == currentPaths

\* After a rename that succeeded: currentPaths.delete(fileInfo.fullPath) and
\* currentPaths.add(renameResult.newPath)
movePath(currentPaths, renameResult, p, finalPath) ==
  IF renameResult.success
    THEN (currentPaths \ {p}) \cup {finalPath}
    ELSE currentPaths

\* The candidate passed the gate: rename to the canonical name, insert the
\* active entry, move the path in currentPaths when the rename succeeded.
\* The insert throws when the catalog already has a row with that
\* current_path; the exception leaves processMovieFile.
Accept(s, o) ==
  LET p == scan[s].cur
      renameResult == renameFile(fs, p, buildFileName(o.cand))
      finalPath == IF renameResult.success THEN buildFileName(o.cand) ELSE p
      alreadyCorrectName == ~renameResult.success
                            /\ renameResult.error = "already exists"
                            /\ p = buildFileName(o.cand)
      movie == Movie(nextId, p, finalPath, "active", "tmdb", o.cand, "movie",
                     o.posterUrl,
                     RenameErrorMessage(renameResult, alreadyCorrectName),
                     clock)
  IN /\ fs' = renameResult.fs
     /\ IF UniqueCurrentPath(db, 0, finalPath)
          THEN /\ db' = create(db, movie)
               /\ nextId' = nextId + 1
               /\ scan' = [scan EXCEPT ![s] =
                    [@ EXCEPT !.pc = "items", !.result.created = @ + 1,
                       !.currentPaths = movePath(@, renameResult, p, finalPath),
                       !.last = [path |-> p, how |-> "created", cand |-> o.cand,
                                 validated |-> Validated(o),
                                 renamed |-> renameResult.success, id |-> nextId]]]
          ELSE /\ db' = db
               /\ nextId' = nextId
               /\ scan' = [scan EXCEPT ![s] =
                    [@ EXCEPT !.pc = OnItemError, !.result.errors = @ + 1,
                       !.failed = @ \cup {p},
                       !.last = [path |-> p, how |-> "threw", cand |-> o.cand,
                                 validated |-> Validated(o),
                                 renamed |-> renameResult.success, id |-> 0]]]

\* processMovieFile after the lookup, for a path that has no entry (any more)
FinishItem(s) ==
  /\ scan[s].pc = "resolve"
  /\ IF isTVSeries(scan[s].cur)
       THEN \E tvPoster \in BOOLEAN : TrackSeries(s, tvPoster)
       ELSE \/ Quarantine(s, 0, "not a movie")
            \/ \E o \in [cand : 0..NumMeta, rel : TitleRelations,
                         other : BOOLEAN, nonEnglish : BOOLEAN,
                         yearMatches : BOOLEAN, posterUrl : BOOLEAN] :
                 IF o.cand = 0 THEN Quarantine(s, 0, "not found")
                 ELSE IF ~TitleAccepted(o) THEN Quarantine(s, o.cand, "title mismatch")
                 ELSE Accept(s, o)
  /\ UNCHANGED <<units, lib, tree, items, caches, org, matcher, clock, retry, fsChanges, quiet>>

\* After the loop: markDeletedMovies, and scanMovies returns its result
MarkDeleted(s) ==
  /\ scan[s].pc = "items"
  /\ scan[s].todo = {}
  /\ LET r == markDeletedMovies(db, scan[s].currentPaths, clock)
     IN /\ db' = r.db
        /\ scan' = [scan EXCEPT ![s] =
             [@ EXCEPT !.pc = "done", !.marked = TRUE,
                !.result.deleted = r.deletedCount]]
  /\ UNCHANGED <<units, lib, tree, items, caches, org, matcher, fs, nextId, clock, retry, fsChanges, quiet>>

\* MovieScanTask.execute logs the result and ends
EndScan(s) ==
  /\ scan[s].pc = "done"
  /\ scan' = [scan EXCEPT ![s] = IdleScan]
  /\ quiet' = (retry.pc = "idle" /\ \A x \in ScanTriggers \ {s} : scan[x].pc = "idle")
  /\ UNCHANGED <<units, lib, tree, items, caches, org, matcher, fs, db, nextId, clock, retry, fsChanges>>

\* ------------------------------------------------------------ retry pass
StartRetry ==
  /\ retry.pc = "idle"
  /\ clock < MaxTasks
  /\ clock' = clock + 1
  /\ retry' = [IdleRetry EXCEPT !.pc = "run", !.errorMovies = findAll(db, "error")]
  /\ quiet' = FALSE
  /\ UNCHANGED <<units, lib, tree, items, caches, org, matcher, fs, db, nextId, scan, fsChanges>>

\* The patch RetryErrorsTask.execute writes into the error entry
RetryPatch(movie, o, renameResult, t) ==
  [currentPath |-> IF renameResult.success THEN buildFileName(o.cand)
                   ELSE movie.currentPath,
   title |-> "tmdb", meta |-> o.cand, genre |-> "movie",
   poster |-> o.posterUrl, status |-> "active",
   errorMessage |-> IF renameResult.success THEN "none" ELSE renameResult.error,
   updatedAt |-> t]

\* One turn of the loop of RetryErrorsTask.execute. The UPDATE throws when
\* another row already has the new current_path; nothing catches it inside
\* the task, which ends there. findAll('error') is ordered by created_at
\* DESC: newest entry first. The pass gets for one error entry no candidate, a
\* candidate without a usable rating, or a candidate. It does not call the
\* title match validator; rel, other, nonEnglish and yearMatches say how the
\* candidate relates to the cleaned file name, as in FinishItem.
RetryStep ==
  /\ retry.pc = "run"
  /\ retry.errorMovies # {}
  /\ LET movie == CHOOSE m \in retry.errorMovies :
                      \A x \in retry.errorMovies : x.id <= m.id
     IN \E o \in [kind : {"none", "norating"}, cand : {0}, posterUrl : {FALSE}]
                 \cup [kind : {"found"}, cand : 1..NumMeta, posterUrl : BOOLEAN,
                       rel : TitleRelations, other : BOOLEAN,
                       nonEnglish : BOOLEAN, yearMatches : BOOLEAN] :
          IF o.kind # "found"
            THEN /\ retry' = [retry EXCEPT !.errorMovies = @ \ {movie}]
                 /\ UNCHANGED <<units, lib, tree, items, caches, org, matcher, fs, db>>
            ELSE LET renameResult == renameFile(fs, movie.currentPath,
                                                buildFileName(o.cand))
                     patch == RetryPatch(movie, o, renameResult, clock)
                 IN /\ fs' = renameResult.fs
                    /\ IF UniqueCurrentPath(db, movie.id, patch.currentPath)
                         THEN /\ db' = update(db, movie.id, patch)
                              /\ retry' = [retry EXCEPT !.errorMovies = @ \ {movie},
                                   !.last = [id |-> movie.id,
                                             accepted |-> TitleAccepted(o),
                                             validated |-> Validated(o)]]
                         ELSE /\ db' = db
                              /\ retry' = IdleRetry
  /\ UNCHANGED <<units, lib, tree, items, caches, org, matcher, nextId, clock, scan, fsChanges, quiet>>

EndRetry ==
  /\ retry.pc = "run"
  /\ retry.errorMovies = {}
  /\ retry' = IdleRetry
  /\ UNCHANGED <<units, lib, tree, items, caches, org, matcher, fs, db, nextId, clock, scan, fsChanges, quiet>>

\* ------------------------------------------------------------ environment
\* The user adds or removes a file or folder of the library while no task
\* runs
AddFile(p) ==
  /\ NoTaskRunning
  /\ fsChanges < MaxFsChanges
  /\ p \notin fs
  /\ fs' = fs \cup {p}
  /\ fsChanges' = fsChanges + 1
  /\ quiet' = FALSE
  /\ UNCHANGED <<units, lib, tree, items, caches, org, matcher, db, nextId, clock, scan, retry>>

RemoveFile(p) ==
  /\ NoTaskRunning
  /\ fsChanges < MaxFsChanges
  /\ p \in fs
  /\ fs' = fs \ {p}
  /\ fsChanges' = fsChanges + 1
  /\ quiet' = FALSE
  /\ UNCHANGED <<units, lib, tree, items, caches, org, matcher, db, nextId, clock, scan, retry>>

\* ---------------------------------------------------------- specifications
\* Tasks one after the other: a trigger arrives only while no task runs
Next ==
  \/ \E s \in ScanTriggers : NoTaskRunning /\ StartScan(s)
  \/ \E s \in ScanTriggers : BeginItem(s)
  \/ \E s \in ScanTriggers : FinishItem(s)
  \/ \E s \in ScanTriggers : MarkDeleted(s)
  \/ \E s \in ScanTriggers : EndScan(s)
  \/ NoTaskRunning /\ StartRetry
  \/ RetryStep
  \/ EndRetry
  \/ \E p \in Paths : AddFile(p)
  \/ \E p \in Paths : RemoveFile(p)

Spec == Init /\ [][Next]_vars

\* Triggers as the program takes them: the scheduler, the scan endpoint and
\* the retry endpoint start their task whatever else is running. The user
\* leaves the library as it was when the first trigger arrived.
NextConc ==
  \/ \E s \in ScanTriggers : StartScan(s)
  \/ \E s \in ScanTriggers : BeginItem(s)
  \/ \E s \in ScanTriggers : FinishItem(s)
  \/ \E s \in ScanTriggers : MarkDeleted(s)
  \/ \E s \in ScanTriggers : EndScan(s)
  \/ StartRetry
  \/ RetryStep
  \/ EndRetry

SpecConc == Init /\ [][NextConc]_vars

\* ------------------------------------------------- the validator by itself
\* A caller passes two titles and its options
CallAreSameMovie(r, useLLM, llmConfidenceThreshold) ==
  /\ matcher.pc = "idle"
  /\ matcher' = [pc |-> "called", rel |-> r, useLLM |-> useLLM,
                 llmConfidenceThreshold |-> llmConfidenceThreshold,
                 result |-> NoMatchResult]
  /\ UNCHANGED catalog
  /\ UNCHANGED <<organizer, units>>

\* areSameMovie runs its cascade and returns
ReturnAreSameMovie ==
  /\ matcher.pc = "called"
  /\ matcher' = [matcher EXCEPT !.pc = "returned",
                   !.result = areSameMovie(matcher.rel, matcher.useLLM,
                                           matcher.llmConfidenceThreshold)]
  /\ UNCHANGED catalog
  /\ UNCHANGED <<organizer, units>>

\* Everything but the unit under study at rest
Quiescent ==
  /\ fs = {}
  /\ db = {}
  /\ nextId = 1
  /\ clock = 0
  /\ scan = [s \in ScanTriggers |-> IdleScan]
  /\ retry = IdleRetry
  /\ fsChanges = 0
  /\ quiet = FALSE
  /\ matcher = IdleMatcher
  /\ NewOrganizer

\* A unit studied by itself starts with everything at rest
InitUnit == Quiescent /\ UnitsIdle

\* areSameMovie is called by itself on the pairs of TitleRelations and on
\* pairs only the LLM decides, with its confidence around the thresholds;
\* options.llmConfidenceThreshold is as callers pass it, in percent, 70
\* being the default
NextMatcher ==
  \/ \E r \in TitleRelations \cup
               [exact : {FALSE}, norm : {0}, fuzzy : {0, 50}, llmSame : BOOLEAN,
                llmConf : {0, 50, 69, 70, 71, 90, 100}] :
       \E useLLM \in BOOLEAN : \E t \in {50, 70, 90} :
         CallAreSameMovie(r, useLLM, t)
  \/ ReturnAreSameMovie

SpecMatcher == InitUnit /\ [][NextMatcher]_vars

\* --------------------------------- the metadata lookups of one scan alone
\* TranslateService.detectLanguage gives "ru" for a name with a Cyrillic
\* letter, "en" for one with a Latin letter; "Brat" stands for its Cyrillic
\* spelling.
\* The searchMovie calls processMovieFile makes for a file with clean name t
\* and year y, in order, and whether it ends with movieData, for every
\* answer of TMDb, of the IMDb search and of translateToEnglish (the
\* translated text, or the text itself when the translation is empty or the
\* call fails)
searchMovieCalls(t, y) ==
  LET detectLanguage(x) == IF x = "Brat" THEN "ru" ELSE "en"
  IN
  IF detectLanguage(t) # "en"
    THEN {[queries |-> <<<<t, y>>>>, found |-> TRUE]}
         \cup {[queries |-> <<<<t, y>>, <<searchTitle, y>>>>, found |-> found] :
                 searchTitle \in {t, "Brother"}, found \in BOOLEAN}
    ELSE {[queries |-> <<<<imdbTitle, imdbYear>>>>, found |-> TRUE] :
            imdbTitle \in {x \in LookupTitles : detectLanguage(x) = "en"},
            imdbYear \in LookupYears}
         \cup {[queries |-> <<<<t, y>>>>, found |-> found] : found \in BOOLEAN}

\* TMDbService.searchMovie called for each query: one search request each
RECURSIVE searchMovie(_, _)
searchMovie(asked, queries) ==
  IF queries = << >> THEN asked
  ELSE searchMovie([asked EXCEPT ![Head(queries)] = @ + 1], Tail(queries))

\* scanMovies begins: nothing asked yet in this scan
StartLookups ==
  /\ lookup.pc = "idle"
  /\ lookup' = [IdleLookup EXCEPT !.pc = "scan"]
  /\ UNCHANGED <<catalog, matcher, organizer, parser, titles, resolver>>

\* processMovieFile looks one file up
LookupFile(t, y) ==
  /\ lookup.pc = "scan"
  /\ lookup.files < MaxLookupFiles
  /\ \E o \in searchMovieCalls(t, y) :
       lookup' = [lookup EXCEPT !.files = @ + 1,
                                !.asked = searchMovie(@, o.queries),
                                !.found = o.found]
  /\ UNCHANGED <<catalog, matcher, organizer, parser, titles, resolver>>

\* scanMovies returns
EndLookups ==
  /\ lookup.pc = "scan"
  /\ lookup' = [lookup EXCEPT !.pc = "idle"]
  /\ UNCHANGED <<catalog, matcher, organizer, parser, titles, resolver>>

NextLookup ==
  \/ StartLookups
  \/ \E t \in LookupTitles : \E y \in LookupYears : LookupFile(t, y)
  \/ EndLookups

SpecLookup == InitUnit /\ [][NextLookup]_vars

\* ------------------------------------------------------ strings of the code
\* A string is the sequence of its characters.
UpperLetters ==
  <<"A", "B", "C", "D", "E", "F", "G", "H", "I", "J", "K", "L", "M",
    "N", "O", "P", "Q", "R", "S", "T", "U", "V", "W", "X", "Y", "Z">>

LowerLetters ==
  <<"a", "b", "c", "d", "e", "f", "g", "h", "i", "j", "k", "l", "m",
    "n", "o", "p", "q", "r", "s", "t", "u", "v", "w", "x", "y", "z">>

Digits == {"0", "1", "2", "3", "4", "5", "6", "7", "8", "9"}

Range(seq) == {seq[i] : i \in DOMAIN seq}

\* String.prototype.toLowerCase
toLowerCase(s) ==
  [i \in DOMAIN s |->
     IF s[i] \in Range(UpperLetters)
       THEN LowerLetters[CHOOSE k \in DOMAIN UpperLetters : UpperLetters[k] = s[i]]
       ELSE s[i]]

\* \w and \s of a regular expression
isWordChar(c) ==
  c \in Range(UpperLetters) \cup Range(LowerLetters) \cup Digits \cup {"_"}

isSpace(c) == c = " "

startsWith(s, prefix) ==
  Len(s) >= Len(prefix) /\ SubSeq(s, 1, Len(prefix)) = prefix

\* The number of spaces s begins with, and ends with
RECURSIVE leadingSpaces(_)
leadingSpaces(s) ==
  IF s # << >> /\ isSpace(Head(s)) THEN 1 + leadingSpaces(Tail(s)) ELSE 0

RECURSIVE trailingSpaces(_)
trailingSpaces(s) ==
  IF s # << >> /\ isSpace(s[Len(s)])
    THEN 1 + trailingSpaces(SubSeq(s, 1, Len(s) - 1))
    ELSE 0

\* String.prototype.trim
trim(s) == SubSeq(s, 1 + leadingSpaces(s), Len(s) - trailingSpaces(s))

\* s.replace(/^the\s+/i, '')
dropLeadingThe(s) ==
  LET rest == SubSeq(s, 4, Len(s))
  IN IF startsWith(toLowerCase(s), <<"t", "h", "e">>) /\ leadingSpaces(rest) > 0
       THEN SubSeq(rest, 1 + leadingSpaces(rest), Len(rest))
       ELSE s

\* s.replace(/,\s*the$/i, '')
dropTrailingThe(s) ==
  LET front == SubSeq(s, 1, Len(s) - 3)
      kept == SubSeq(front, 1, Len(front) - trailingSpaces(front))
  IN IF /\ Len(s) >= 3
        /\ toLowerCase(SubSeq(s, Len(s) - 2, Len(s))) = <<"t", "h", "e">>
        /\ kept # << >>
        /\ kept[Len(kept)] = ","
       THEN SubSeq(kept, 1, Len(kept) - 1)
       ELSE s

\* -------------------------------------------------- the resolver by itself
\* normalizeTitle of findBestMatch; SelectSeq is replace(/[^\w\s]/g, '')
normalizeTitle(t) ==
  trim(SelectSeq(dropTrailingThe(dropLeadingThe(toLowerCase(t))),
                 LAMBDA c : isWordChar(c) \/ isSpace(c)))

MaxResults == 3      \* results of one TMDb search

\* The titles of the movies the units are called with
Title ==
  [Dune |-> <<"D", "u", "n", "e">>,
   TheDune |-> <<"T", "h", "e", " ", "D", "u", "n", "e", "!">>,
   DunePartTwo |->
     <<"D", "u", "n", "e", ":", " ", "P", "a", "r", "t", " ", "T", "w", "o">>,
   TheSand |-> <<"T", "h", "e", " ", "S", "a", "n", "d">>,
   Arrival |-> <<"A", "r", "r", "i", "v", "a", "l">>,
   Solaris |-> <<"S", "o", "l", "a", "r", "i", "s">>,
   Alien |-> <<"A", "l", "i", "e", "n">>,
   Aliens |-> <<"A", "l", "i", "e", "n", "s">>,
   TheAlien |-> <<"T", "h", "e", " ", "A", "l", "i", "e", "n">>,
   Boxes |-> <<"B", "o", "x", "e", "s">>,
   Box |-> <<"B", "O", "X">>,
   TwoTower |->
     <<"T", "h", "e", " ", "L", "o", "r", "d", " ", "o", "f", " ", "t", "h",
       "e", " ", "R", "i", "n", "g", "s", ":", " ", "T", "h", "e", " ", "T",
       "w", "o", " ", "T", "o", "w", "e", "r">>,
   TwoTowers |->
     <<"T", "h", "e", " ", "L", "o", "r", "d", " ", "o", "f", " ", "t", "h",
       "e", " ", "R", "i", "n", "g", "s", ":", " ", "T", "h", "e", " ", "T",
       "w", "o", " ", "T", "o", "w", "e", "r", "s">>,
   Inception |-> <<"I", "n", "c", "e", "p", "t", "i", "o", "n">>,
   ThreeDaysToKill |->
     <<"3", " ", "D", "a", "y", "s", " ", "t", "o", " ", "K", "i", "l", "l">>,
   MrNobody |-> <<"M", "r", ".", " ", "N", "o", "b", "o", "d", "y">>]

\* A TMDbMovie of the search response; year is the year of release_date, 0
\* without one. Vote counts are powers of ten.
TMDbMovie(id, title, original_title, year, lang, vote_count, popularity, vote_average) ==
  [id |-> id, title |-> title, original_title |-> original_title,
   year |-> year, original_language |-> lang,
   vote_count |-> vote_count, popularity |-> popularity,
   vote_average |-> vote_average]

\* What TMDb may list
ProviderMovies ==
  {TMDbMovie(1, Title.Dune, Title.Dune, 2021, "en", 1000, 0, 0),
   TMDbMovie(2, Title.Dune, Title.Dune, 1984, "en", 1, 800, 0),
   TMDbMovie(3, Title.Dune, Title.Dune, 2021, "en", 1000, 0, 0),
   TMDbMovie(4, Title.DunePartTwo, Title.DunePartTwo, 2024, "en", 1000, 900, 8),
   TMDbMovie(5, Title.TheSand, Title.TheDune, 2020, "fr", 10, 100, 7),
   TMDbMovie(6, Title.Arrival, Title.Arrival, 2016, "en", 100, 50, 8)}

\* results.filter: n1 === normalizedSearch || n2 === normalizedSearch
exactMatches(results, searchTitle) ==
  SelectSeq(results,
            LAMBDA m : \/ normalizeTitle(m.title) = normalizeTitle(searchTitle)
                       \/ normalizeTitle(m.original_title) = normalizeTitle(searchTitle))

\* results.filter: one normalized title begins with the other and a space
partialMatches(results, searchTitle) ==
  LET ns == normalizeTitle(searchTitle)
  IN SelectSeq(results,
               LAMBDA m :
                 LET n1 == normalizeTitle(m.title)
                     n2 == normalizeTitle(m.original_title)
                 IN \/ startsWith(n1, ns \o <<" ">>)
                    \/ startsWith(n2, ns \o <<" ">>)
                    \/ startsWith(ns, n1 \o <<" ">>)
                    \/ startsWith(ns, n2 \o <<" ">>))

\* A pool that is always the whole response
candidatePoolUnfiltered(results, searchTitle) == results

\* candidates before the year filter: the exact matches, else the partial
\* matches, else the whole response
candidatePool(results, searchTitle) ==
  IF exactMatches(results, searchTitle) # << >>
    THEN exactMatches(results, searchTitle)
  ELSE IF partialMatches(results, searchTitle) # << >>
    THEN partialMatches(results, searchTitle)
  ELSE results

\* candidates after the year filter: within one year of searchYear, when
\* one is given and some candidate is
yearFilter(candidates, searchYear) ==
  LET yearMatches ==
        SelectSeq(candidates,
                  LAMBDA m : m.year - searchYear <= 1 /\ searchYear - m.year <= 1)
  IN IF searchYear # 0 /\ yearMatches # << >> THEN yearMatches ELSE candidates

\* Math.log10(v) * 100, in thousandths, for a power of ten v
RECURSIVE log10Times100(_)
log10Times100(v) == IF v < 10 THEN 0 ELSE 100000 + log10Times100(v \div 10)

\* Math.log(v) * 100, in thousandths, for a power of ten v
RECURSIVE logTimes100(_)
logTimes100(v) == IF v < 10 THEN 0 ELSE 230259 + logTimes100(v \div 10)

\* A score with the natural logarithm of the vote count
scoreNaturalLog(m) ==
  (IF m.original_language = "en" THEN 1000000 ELSE 0)
  + logTimes100(IF m.vote_count < 1 THEN 1 ELSE m.vote_count) + m.popularity * 500 + m.vote_average * 5000

\* The score of a candidate, in thousandths; the vote count is
\* Math.max(m.vote_count || 1, 1)
score(m) ==
  (IF m.original_language = "en" THEN 1000000 ELSE 0)
  + log10Times100(IF m.vote_count < 1 THEN 1 ELSE m.vote_count) + m.popularity * 500 + m.vote_average * 5000

\* scored.sort((a, b) => b.score - a.score): a stable sort, higher scores
\* first
RECURSIVE sortByScore(_)
sortByScore(seq) ==
  IF seq = << >> THEN << >>
  ELSE LET front == SubSeq(seq, 1, Len(seq) - 1)
           last == seq[Len(seq)]
           sorted == sortByScore(front)
       IN SelectSeq(sorted, LAMBDA m : score(m) >= score(last))
          \o <<last>>
          \o SelectSeq(sorted, LAMBDA m : score(m) < score(last))

\* TMDbService.findBestMatch: the id of the result it returns, 0 for null
findBestMatch(results, searchTitle, searchYear) ==
  IF results = << >> THEN 0
  ELSE sortByScore(yearFilter(candidatePool(results, searchTitle), searchYear))[1].id

\* searchMovie has a response and calls findBestMatch
CallFindBestMatch(results, searchTitle, searchYear) ==
  /\ resolver.pc = "idle"
  /\ resolver' = [pc |-> "called", results |-> results,
                  searchTitle |-> searchTitle, searchYear |-> searchYear,
                  bestMatch |-> 0]
  /\ UNCHANGED <<catalog, matcher, organizer, parser, titles, lookup>>

\* findBestMatch returns
ReturnFindBestMatch ==
  /\ resolver.pc = "called"
  /\ resolver' = [resolver EXCEPT !.pc = "returned",
                    !.bestMatch = findBestMatch(resolver.results,
                                                resolver.searchTitle,
                                                resolver.searchYear)]
  /\ UNCHANGED <<catalog, matcher, organizer, parser, titles, lookup>>

\* The responses of a search are up to MaxResults distinct movies in any
\* order
NextResolver ==
  \/ \E results \in {r \in UNION {[1..n -> ProviderMovies] : n \in 0..MaxResults} :
                       \A i, j \in DOMAIN r : i # j => r[i] # r[j]} :
       \E t \in {Title.Dune, Title.TheDune, Title.Solaris} :
         \E y \in {0, 1984, 2021} :
           CallFindBestMatch(results, t, y)
  \/ ReturnFindBestMatch

SpecResolver == InitUnit /\ [][NextResolver]_vars

\* ------------------------------------------ the validator on titles alone
\* s.replace(/\s+/g, ' ')
RECURSIVE collapseSpaces(_)
collapseSpaces(s) ==
  IF Len(s) < 2 THEN s
  ELSE IF isSpace(s[1]) /\ isSpace(s[2]) THEN collapseSpaces(Tail(s))
  ELSE <<s[1]>> \o collapseSpaces(Tail(s))

\* TitleMatcherService.normalize, for titles without HTML entities and
\* accented letters; spaced is replace(/[^\w\s]/g, ' ')
normalize(title) ==
  LET spaced(s) == [i \in DOMAIN s |->
                      IF isWordChar(s[i]) \/ isSpace(s[i]) THEN s[i] ELSE " "]
  IN trim(collapseSpaces(spaced(
            dropTrailingThe(dropLeadingThe(toLowerCase(title))))))

\* longer === shorter + 's' || longer === shorter + 'es'
isSingularVsPlural(shorter, longer) ==
  longer = shorter \o <<"s">> \/ longer = shorter \o <<"e", "s">>

\* The confidence isNormalizedMatch returns for two titles, in percent: 95
\* for equal normalized titles, 85 when one contains the other, is at least
\* 0.7 of its length and is not its singular; 0 otherwise
normalizedConfidence(title1, title2) ==
  LET includes(s, part) ==
        \E i \in 1..(Len(s) - Len(part) + 1) :
          SubSeq(s, i, i + Len(part) - 1) = part
      n1 == normalize(title1)
      n2 == normalize(title2)
      shorter == IF Len(n1) < Len(n2) THEN n1 ELSE n2
      longer == IF Len(n1) < Len(n2) THEN n2 ELSE n1
  IN IF n1 = n2 THEN 95
     ELSE IF /\ includes(n1, n2) \/ includes(n2, n1)
             /\ Len(shorter) * 10 >= 7 * Len(longer)
             /\ ~isSingularVsPlural(shorter, longer)
       THEN 85
     ELSE 0

\* s.split(' ')
RECURSIVE split(_)
split(s) ==
  IF \E i \in DOMAIN s : isSpace(s[i])
    THEN LET i == CHOOSE k \in DOMAIN s :
                    isSpace(s[k]) /\ \A j \in 1..(k - 1) : ~isSpace(s[j])
         IN <<SubSeq(s, 1, i - 1)>> \o split(SubSeq(s, i + 1, Len(s)))
    ELSE <<s>>

\* extractSignificantWords: the words of the normalized title longer than 2
extractSignificantWords(title) ==
  SelectSeq(split(normalize(title)), LAMBDA word : Len(word) > 2)

\* The confidence isFuzzyMatch returns, in percent: the share of the words
\* of title1 found in title2 among the fewer words, times fewer over more
fuzzyConfidence(title1, title2) ==
  LET words1 == extractSignificantWords(title1)
      words2 == extractSignificantWords(title2)
      commonWords == SelectSeq(words1, LAMBDA w : w \in Range(words2))
      maxWords == IF Len(words1) > Len(words2) THEN Len(words1) ELSE Len(words2)
  IN IF Len(words1) = 0 \/ Len(words2) = 0 THEN 0
     ELSE (100 * Len(commonWords)) \div maxWords

\* What the four tiers see of two titles and of the answer of the LLM
compareTitles(title1, title2, llm) ==
  [exact |-> title1 = title2,
   norm |-> normalizedConfidence(title1, title2),
   fuzzy |-> fuzzyConfidence(title1, title2),
   llmSame |-> llm.llmSame, llmConf |-> llm.llmConf]

\* A caller passes two titles
CallMatch(title1, title2, useLLM) ==
  /\ titles.pc = "idle"
  /\ titles' = [pc |-> "called", title1 |-> title1, title2 |-> title2,
                useLLM |-> useLLM, result |-> NoMatchResult]
  /\ UNCHANGED <<catalog, matcher, organizer, parser, lookup, resolver>>

\* areSameMovie runs its cascade, the LLM answering if asked with isSame
\* and its confidence in percent, and returns
ReturnMatch ==
  /\ titles.pc = "called"
  /\ \E llm \in [llmSame : BOOLEAN, llmConf : {50, 90}] :
       titles' = [titles EXCEPT !.pc = "returned",
                    !.result = areSameMovie(compareTitles(titles.title1,
                                                          titles.title2, llm),
                                            titles.useLLM,
                                            LLM_CONFIDENCE_THRESHOLD)]
  /\ UNCHANGED <<catalog, matcher, organizer, parser, lookup, resolver>>

NextTitles ==
  \/ \E title1, title2 \in {Title.Alien, Title.Aliens, Title.TheAlien,
                             Title.Boxes, Title.Box, Title.TwoTower,
                             Title.TwoTowers} : \E useLLM \in BOOLEAN :
       CallMatch(title1, title2, useLLM)
  \/ ReturnMatch

SpecTitles == InitUnit /\ [][NextTitles]_vars

\* ======================================================= the name parser
\* MovieNameParser of file-scanner.ts on strings, each regular expression
\* modelled by what it matches.

\* The number of characters of s from position i on that belong to chars: the
\* greedy match of [chars]*
RECURSIVE runLength(_, _, _)
runLength(s, i, chars) ==
  IF i <= Len(s) /\ s[i] \in chars THEN 1 + runLength(s, i + 1, chars) ELSE 0

\* \b of a regular expression, between s[i - 1] and s[i]
wordBoundary(s, i) ==
  LET before == i > 1 /\ i - 1 <= Len(s) /\ isWordChar(s[i - 1])
      after == i >= 1 /\ i <= Len(s) /\ isWordChar(s[i])
  IN before # after

\* The lower-case token is read at s[i], whatever the case (flag i)
matchesAt(s, i, token) ==
  /\ i >= 1
  /\ i + Len(token) - 1 <= Len(s)
  /\ toLowerCase(SubSeq(s, i, i + Len(token) - 1)) = token

\* MOVIE_NAME_PATTERNS: the alternatives of QUALITY, CODEC, AUDIO and
\* LANGUAGE, in their order
MOVIE_NAME_PATTERNS ==
  [QUALITY |->
    <<<<"4", "8", "0", "p">>,
      <<"7", "2", "0", "p">>,
      <<"1", "0", "8", "0", "p">>,
      <<"2", "1", "6", "0", "p">>,
      <<"4", "k">>,
      <<"h", "d">>,
      <<"u", "h", "d">>,
      <<"b", "l", "u", "r", "a", "y">>,
      <<"b", "r", "r", "i", "p">>,
      <<"b", "d", "r", "i", "p">>,
      <<"d", "v", "d", "r", "i", "p">>,
      <<"w", "e", "b", "r", "i", "p">>,
      <<"w", "e", "b", "-", "d", "l">>,
      <<"w", "e", "b">>,
      <<"h", "d", "t", "v">>,
      <<"k", "p">>>>,
   CODEC |->
    <<<<"x", "2", "6", "4">>,
      <<"x", "2", "6", "5">>,
      <<"h", "2", "6", "4">>,
      <<"h", "2", "6", "5">>,
      <<"h", "e", "v", "c">>,
      <<"x", "v", "i", "d">>,
      <<"d", "i", "v", "x">>,
      <<"a", "v", "c">>>>,
   AUDIO |->
    <<<<"a", "a", "c">>,
      <<"a", "c", "3">>,
      <<"d", "t", "s">>,
      <<"t", "r", "u", "e", "h", "d">>,
      <<"a", "t", "m", "o", "s">>,
      <<"d", "d", "5", ".", "1">>,
      <<"d", "d", "7", ".", "1">>>>,
   LANGUAGE |->
    <<<<"r", "u", "s">>,
      <<"u", "k", "r">>,
      <<"e", "n", "g">>,
      <<"e", "n", "g", "l", "i", "s", "h">>,
      <<"r", "u", "s", "s", "i", "a", "n">>,
      <<"u", "k", "r", "a", "i", "n", "i", "a", "n">>,
      <<"m", "u", "l", "t", "i">>,
      <<"d", "u", "a", "l">>>>]

\* The length of the first alternative read at s[i] that ends at a word
\* boundary; 0 when there is none
RECURSIVE alternativeLength(_, _, _)
alternativeLength(s, i, alts) ==
  IF alts = << >> THEN 0
  ELSE IF /\ matchesAt(s, i, Head(alts))
          /\ wordBoundary(s, i + Len(Head(alts)))
         THEN Len(Head(alts))
         ELSE alternativeLength(s, i, Tail(alts))

\* The length of the match of a pattern at s[i]; 0 when there is none.
\* GROUP_TAG is /-[A-Z0-9]+\b/gi; FOLDER_QUALITY is \d+\s*fps, ai\s*upscale
\* and remaster(?:ed)? between word boundaries (60fps, 30fps and 24fps are
\* cases of the first)
matchLength(pattern, s, i) ==
  LET run == runLength(s, i + 1, Range(UpperLetters) \cup Range(LowerLetters) \cup Digits)
      digits == runLength(s, i, Digits)
      gap == runLength(s, i + digits, {" "})
      aiGap == runLength(s, i + 2, {" "})
      fps == <<"f", "p", "s">>
      upscale == <<"u", "p", "s", "c", "a", "l", "e">>
      remaster == <<"r", "e", "m", "a", "s", "t", "e", "r">>
  IN CASE pattern = "GROUP_TAG" ->
            IF s[i] = "-" /\ run > 0 /\ wordBoundary(s, i + 1 + run)
              THEN 1 + run
              ELSE 0
       [] pattern = "FOLDER_QUALITY" ->
            IF ~wordBoundary(s, i) THEN 0
            ELSE IF /\ digits > 0
                    /\ matchesAt(s, i + digits + gap, fps)
                    /\ wordBoundary(s, i + digits + gap + 3)
              THEN digits + gap + 3
            ELSE IF /\ matchesAt(s, i, <<"a", "i">>)
                    /\ matchesAt(s, i + 2 + aiGap, upscale)
                    /\ wordBoundary(s, i + 2 + aiGap + 7)
              THEN 2 + aiGap + 7
            ELSE IF matchesAt(s, i, remaster \o <<"e", "d">>) /\ wordBoundary(s, i + 10)
              THEN 10
            ELSE IF matchesAt(s, i, remaster) /\ wordBoundary(s, i + 8)
              THEN 8
            ELSE 0
       [] pattern \in DOMAIN MOVIE_NAME_PATTERNS ->
            IF wordBoundary(s, i)
              THEN alternativeLength(s, i, MOVIE_NAME_PATTERNS[pattern])
              ELSE 0

\* s.replace(pattern, ' ') with flag g, read from position i on
RECURSIVE replaceFrom(_, _, _)
replaceFrom(pattern, s, i) ==
  IF i > Len(s) THEN << >>
  ELSE LET n == matchLength(pattern, s, i)
       IN IF n > 0
            THEN <<" ">> \o replaceFrom(pattern, s, i + n)
            ELSE <<s[i]>> \o replaceFrom(pattern, s, i + 1)

\* /\((?:19|20)\d{2}\)/ read at s[i]
yearInParentheses(s, i) ==
  /\ i + 5 <= Len(s)
  /\ s[i] = "("
  /\ SubSeq(s, i + 1, i + 2) \in {<<"1", "9">>, <<"2", "0">>}
  /\ s[i + 3] \in Digits
  /\ s[i + 4] \in Digits
  /\ s[i + 5] = ")"

\* The length of the match of /^(\d{1,2})/ followed by one of next; 0 when
\* there is none
numberPrefix(s, next) ==
  LET digits == runLength(s, 1, Digits)
  IN IF digits \in {1, 2} /\ digits < Len(s) /\ s[digits + 1] \in next
       THEN digits
       ELSE 0

\* /^(\d{1,2})[-.].*\((?:19|20)\d{2}\)/
movieCollectionItem(s) ==
  LET digits == numberPrefix(s, {"-", "."})
  IN digits > 0 /\ \E i \in (digits + 2)..Len(s) : yearInParentheses(s, i)

\* MOVIE_NAME_PATTERNS.EPISODE
episodePrefix(s) == numberPrefix(s, {".", " ", "-"}) > 0

\* MOVIE_NAME_PATTERNS.TV_EPISODE read at s[i]
tvEpisodeAt(s, i) ==
  LET d1 == runLength(s, i + 1, Digits)
      sep == IF i + 1 + d1 <= Len(s) /\ s[i + 1 + d1] \in {".", " "}
               THEN 1 ELSE 0
      d2 == runLength(s, i + 2 + d1 + sep, Digits)
      word == IF matchesAt(s, i, <<"s", "e", "a", "s", "o", "n">>) THEN 6
              ELSE IF matchesAt(s, i, <<"e", "p", "i", "s", "o", "d", "e">>)
                THEN 7 ELSE 0
      gap == runLength(s, i + word, {" "})
      number == runLength(s, i + word + gap, Digits)
  IN /\ wordBoundary(s, i)
     /\ \/ /\ matchesAt(s, i, <<"s">>)
           /\ d1 \in {1, 2}
           /\ matchesAt(s, i + 1 + d1 + sep, <<"e">>)
           /\ d2 \in {1, 2}
           /\ wordBoundary(s, i + 2 + d1 + sep + d2)
        \/ /\ word > 0
           /\ number > 0
           /\ wordBoundary(s, i + word + gap + number)

\* name.replace(/^(\d{1,2})[-.\s]+/, '')
dropNumberPrefix(s) ==
  LET digits == numberPrefix(s, {"-", ".", " "})
      rest == runLength(s, digits + 1, {"-", ".", " "})
  IN IF digits > 0 THEN SubSeq(s, digits + rest + 1, Len(s)) ELSE s

\* name.match(MOVIE_NAME_PATTERNS.YEAR): the four digits of the first year,
\* << >> when there is none
firstYear(s) ==
  LET at == {i \in 1..Len(s) :
               /\ wordBoundary(s, i)
               /\ i + 3 <= Len(s)
               /\ SubSeq(s, i, i + 1) \in {<<"1", "9">>, <<"2", "0">>}
               /\ s[i + 2] \in Digits
               /\ s[i + 3] \in Digits
               /\ wordBoundary(s, i + 4)}
  IN IF at = {} THEN << >>
     ELSE LET i == CHOOSE i \in at : \A j \in at : i <= j
          IN SubSeq(s, i, i + 3)

\* name.replace(/\b[a-z]\s+[A-Z][a-z]+$/i, ' ') when dot is FALSE and
\* name.replace(/\b[a-z]\.\s*[A-Z][a-z]+$/i, ' ') when it is TRUE
dropTrailingGroup(s, dot) ==
  LET Letters == Range(UpperLetters) \cup Range(LowerLetters)
      from(i) == IF dot THEN i + 2 ELSE i + 1
      at == {i \in 1..Len(s) :
               LET gap == runLength(s, from(i), {" "})
                   word == runLength(s, from(i) + gap, Letters)
               IN /\ wordBoundary(s, i)
                  /\ s[i] \in Letters
                  /\ IF dot THEN i < Len(s) /\ s[i + 1] = "." ELSE gap > 0
                  /\ word >= 2
                  /\ from(i) + gap + word = Len(s) + 1}
  IN IF at = {} THEN s
     ELSE SubSeq(s, 1, (CHOOSE i \in at : \A j \in at : i <= j) - 1)
            \o <<" ">>

\* name.substring(0, ext) when ext = name.lastIndexOf('.') is positive
withoutExtension(fileName) ==
  LET dots == {i \in DOMAIN fileName : fileName[i] = "."}
      ext == IF dots = {} THEN 0 ELSE CHOOSE i \in dots : \A j \in dots : i >= j
  IN IF ext > 1 THEN SubSeq(fileName, 1, ext - 1) ELSE fileName

\* MovieNameParser.cleanMovieName: the clean name, the year as it is written
\* (<< >> for undefined) and isTVEpisode. indexOf is String.prototype.indexOf
\* counted from 1, 0 when absent; spaced is
\* name.replace(BRACKETS, ' ').replace(DOTS_UNDERSCORES, ' ')
cleanMovieName(fileName) ==
  LET name == withoutExtension(fileName)
      hasYear == \E i \in 1..Len(name) : yearInParentheses(name, i)
      isMovieCollectionItem == movieCollectionItem(name)
      isTVEpisode ==
        /\ ~hasYear
        /\ ~isMovieCollectionItem
        /\ \/ episodePrefix(name)
           \/ \E i \in 1..Len(name) : tvEpisodeAt(name, i)
      unnumbered == IF isMovieCollectionItem \/ isTVEpisode
                      THEN dropNumberPrefix(name)
                      ELSE name
      year == firstYear(unnumbered)
      untagged ==
        replaceFrom("FOLDER_QUALITY",
          replaceFrom("LANGUAGE",
            replaceFrom("AUDIO",
              replaceFrom("CODEC",
                replaceFrom("QUALITY",
                  dropTrailingGroup(
                    dropTrailingGroup(replaceFrom("GROUP_TAG", unnumbered, 1),
                                      FALSE),
                    TRUE), 1), 1), 1), 1), 1)
      indexOf(s, part) ==
        LET at == {i \in 1..(Len(s) - Len(part) + 1) :
                     SubSeq(s, i, i + Len(part) - 1) = part}
        IN IF at = {} THEN 0 ELSE CHOOSE i \in at : \A j \in at : i <= j
      yearIndex == IF year = << >> THEN 0 ELSE indexOf(untagged, year)
      title == IF yearIndex > 1
                 THEN SubSeq(untagged, 1, yearIndex - 1)
                 ELSE untagged
      spaced(s) == [i \in DOMAIN s |->
                      IF s[i] \in {"[", "]", "(", ")", "{", "}", ".", "_"}
                        THEN " "
                        ELSE s[i]]
  IN [cleanName |-> trim(collapseSpaces(spaced(title))),
      year |-> year,
      isTVEpisode |-> isTVEpisode]

\* The file names cleaned: those of tv-series-name-parser.test.ts and the
\* same titles as a download names them
FileName ==
  [ThreeDaysProcessed |->
     <<"3", " ", "D", "a", "y", "s", " ", "t", "o", " ", "K", "i", "l", "l",
       " ", "(", "2", "0", "1", "4", ")", " ", "(", "I", "M", "D", "B", " ",
       "6", ".", "2", ")", ".", "m", "k", "v">>,
   ThreeDaysBare |->
     <<"3", " ", "D", "a", "y", "s", " ", "t", "o", " ", "K", "i", "l", "l",
       ".", "m", "k", "v">>,
   ThreeDaysRelease |->
     <<"3", ".", "D", "a", "y", "s", ".", "t", "o", ".", "K", "i", "l", "l",
       ".", "2", "0", "1", "4", ".", "1", "0", "8", "0", "p", ".", "B", "l",
       "u", "R", "a", "y", ".", "x", "2", "6", "4", "-", "Y", "I", "F", "Y",
       ".", "m", "k", "v">>,
   FiftySevenSeconds |->
     <<"5", "7", " ", "S", "e", "c", "o", "n", "d", "s", " ", "(", "2", "0",
       "2", "3", ")", " ", "(", "I", "M", "D", "B", " ", "5", ".", "4", ")",
       ".", "m", "k", "v">>,
   JohnWickItem |->
     <<"0", "1", "-", "J", "o", "h", "n", " ", "W", "i", "c", "k", " ", "(",
       "2", "0", "1", "4", ")", " ", "(", "I", "M", "D", "B", " ", "7", ".",
       "4", ")", ".", "m", "k", "v">>,
   MatrixItem |->
     <<"0", "2", ".", " ", "T", "h", "e", " ", "M", "a", "t", "r", "i", "x",
       " ", "(", "1", "9", "9", "9", ")", " ", "(", "I", "M", "D", "B", " ",
       "8", ".", "7", ")", ".", "m", "k", "v">>,
   PilotEpisode |->
     <<"0", "6", ".", " ", "P", "i", "l", "o", "t", ".", "m", "k", "v">>,
   InceptionRelease |->
     <<"I", "n", "c", "e", "p", "t", "i", "o", "n", ".", "2", "0", "1", "0",
       ".", "1", "0", "8", "0", "p", ".", "B", "l", "u", "R", "a", "y", ".",
       "x", "2", "6", "4", "-", "Y", "I", "F", "Y", ".", "m", "k", "v">>,
   ShrekFps |->
     <<"S", "H", "R", "E", "K", " ", "6", "0", " ", "F", "P", "S">>]

\* Number.prototype.toString of a natural number
RECURSIVE toString(_)
toString(n) ==
  LET digit == <<"0", "1", "2", "3", "4", "5", "6", "7", "8", "9">>
  IN IF n < 10 THEN <<digit[n + 1]>>
     ELSE toString(n \div 10) \o <<digit[(n % 10) + 1]>>

\* MovieNameParser.buildFileName, on strings; imdbRating is given in tenths,
\* as searchMovie rounds it, and toFixed1 is imdbRating.toFixed(1)
buildFileNameText(title, year, imdbRating, extension) ==
  LET toFixed1 ==
        toString(imdbRating \div 10) \o <<".">> \o toString(imdbRating % 10)
  IN title \o <<" ", "(">> \o toString(year)
       \o <<")", " ", "(", "I", "M", "D", "B", " ">> \o toFixed1 \o <<")">>
       \o extension

\* fileName.match(/^(.+)\s\((\d{4})\)\s\(IMDB\s([\d.]+)\)(\.\w+)$/) of
\* FileScanner.parseFile, as a test
alreadyProcessedPattern(fileName) ==
  \E t \in 1..Len(fileName) :
    LET rest == SubSeq(fileName, t + 1, Len(fileName))
        rating == runLength(rest, 15, Digits \cup {"."})
        ext == Len(rest) - (15 + rating + 1)
    IN /\ Len(rest) >= 18
       /\ rest[1] = " "
       /\ rest[2] = "("
       /\ runLength(rest, 3, Digits) = 4
       /\ SubSeq(rest, 7, 14) = <<")", " ", "(", "I", "M", "D", "B", " ">>
       /\ rating > 0
       /\ \E r \in 1..rating :
            /\ 15 + r + 1 <= Len(rest)
            /\ rest[15 + r] = ")"
            /\ rest[15 + r + 1] = "."
            /\ Len(rest) > 15 + r + 1
            /\ \A k \in (15 + r + 2)..Len(rest) : isWordChar(rest[k])

\* A caller cleans a file name
CallCleanMovieName(fileName) ==
  /\ parser.pc = "idle"
  /\ parser' = [parser EXCEPT !.pc = "cleaned",
                              !.fileName = fileName,
                              !.cleanName = cleanMovieName(fileName).cleanName]
  /\ UNCHANGED <<catalog, matcher, organizer, lookup, resolver, titles>>

\* The clean name is cleaned in its turn
CleanAgain ==
  /\ parser.pc = "cleaned"
  /\ parser' = [parser EXCEPT !.pc = "recleaned",
                              !.again = cleanMovieName(parser.cleanName).cleanName]
  /\ UNCHANGED <<catalog, matcher, organizer, lookup, resolver, titles>>

\* A caller builds the name of a resolved movie
CallBuildFileName(title, year, imdbRating, extension) ==
  /\ parser.pc = "idle"
  /\ parser' = [parser EXCEPT !.pc = "built",
                              !.built = buildFileNameText(title, year,
                                                          imdbRating,
                                                          extension)]
  /\ UNCHANGED <<catalog, matcher, organizer, lookup, resolver, titles>>

\* parseFile tests the built name against the pattern of processed files
MatchAlreadyProcessed ==
  /\ parser.pc = "built"
  /\ parser' = [parser EXCEPT !.pc = "matched",
                              !.recognized = alreadyProcessedPattern(parser.built)]
  /\ UNCHANGED <<catalog, matcher, organizer, lookup, resolver, titles>>

\* The call is over
ParserReturn ==
  /\ parser.pc \in {"recleaned", "matched"}
  /\ parser' = IdleParser
  /\ UNCHANGED <<catalog, matcher, organizer, lookup, resolver, titles>>

\* The scan passes to buildFileName a title of the provider, the year of
\* its release date or 0 without one, its rating rounded to tenths, and the
\* extension of the file or '' for a folder
NextParser ==
  \/ \E k \in DOMAIN FileName : CallCleanMovieName(FileName[k])
  \/ CleanAgain
  \/ \E title \in {Title.Inception, Title.ThreeDaysToKill, Title.MrNobody},
        year \in {0, 1999, 2014},
        imdbRating \in {0, 62, 70, 100},
        extension \in {<<".", "m", "k", "v">>, <<".", "m", "p", "4">>, << >>} :
       CallBuildFileName(title, year, imdbRating, extension)
  \/ MatchAlreadyProcessed
  \/ ParserReturn

SpecParser == InitUnit /\ [][NextParser]_vars

\* ============================================================ the organizer
\* MediaOrganizerService.organizeDirectory: the tree loader
\* (buildFolderStructure), the item classifier (FileScanner.parse, parseFolder
\* and parseFile, with their memoized lookups) and the renames of processFolder.
\*
\* A name is a pair of its shape and the title it carries:
\*   <<"messy", t>>     "The.Matrix.1999.1080p.BluRay.mkv"
\*   <<"canon", t>>     "t (Year) (IMDB R.R).mkv", the canonical file name
\*   <<"numbered", t>>  "01. t.mkv"
\*   <<"episode", t>>   "Show S01E01.mkv", the name parseFile gives an episode
\*   <<"sub", t>>       "t.srt"
\*   <<"dir", m>>       a directory named m
\*   <<"canondir", m>>  "m (Year) (IMDB R.R)", no extension
\*   <<"folder", x>>    the folder of the library: as the user named it
\*                      ("raw"), as a renamed rip ("rip") or series ("series")
BDRIP_INDICATORS ==
  {"BACKUP", "BDMV", "CERTIFICATE", "CLIPINF", "PLAYLIST", "STREAM"}

\* The names parseFile returns on without a parsedItem
MarkerSkipList == {"BDMV", "VIDEO_TS", "CERTIFICATE"}

\* The libraries organizeDirectory is run on: at most one of the files a
\* user may have at the root, and a folder of at most three of the entries a
\* user may have in it
Libraries ==
  LET RootFileNames ==
        {<<"messy", "The Matrix">>, <<"canon", "The Matrix">>,
         <<"sub", "The Matrix">>}
      FolderEntryNames ==
        {<<"dir", "BACKUP">>, <<"dir", "BDMV">>, <<"dir", "STREAM">>,
         <<"numbered", "Pilot">>, <<"numbered", "Finale">>,
         <<"canon", "12 Angry Men">>}
  IN {[root |-> r, folder |-> f] :
        r \in {x \in SUBSET RootFileNames : Cardinality(x) <= 1},
        f \in {NoFolder} \cup
              {[name |-> <<"folder", "raw">>, entries |-> e] :
                 e \in {x \in SUBSET FolderEntryNames :
                          Cardinality(x) \in 1..3}}}

\* MOVIE_EXTENSIONS.includes(ext)
isMovieFile(n) == n[1] \in {"messy", "canon", "numbered", "episode"}

\* isRelevantFile, and the subtitleExtensions of parseFile
isSubtitleFile(n) == n[1] = "sub"

\* The order of the entries readdirSync returns: by name
NameRank(n) ==
  CASE n = <<"numbered", "Pilot">> -> 1
    [] n = <<"numbered", "Finale">> -> 2
    [] n = <<"canon", "12 Angry Men">> -> 3
    [] n[1] = "canondir" -> 4
    [] n = <<"dir", "BACKUP">> -> 5
    [] n = <<"dir", "BDMV">> -> 6
    [] n = <<"dir", "STREAM">> -> 7
    [] n[1] = "episode" -> IF n[2] = "Pilot" THEN 8 ELSE IF n[2] = "Finale" THEN 9 ELSE 10
    [] n = <<"canon", "The Matrix">> -> 11
    [] n = <<"sub", "The Matrix">> -> 12
    [] n = <<"messy", "The Matrix">> -> 13
    [] OTHER -> 14

RECURSIVE InOrder(_)
InOrder(names) ==
  IF names = {} THEN << >>
  ELSE LET n == CHOOSE x \in names : \A y \in names : NameRank(x) <= NameRank(y)
       IN <<n>> \o InOrder(names \ {n})

\* buildFolderStructure of the folder of the library. A folder with an entry
\* named as a rip indicator is not descended into: its Folder has one File,
\* the first indicator that is a directory. Any other folder gets its video
\* and subtitle files; a folder with neither is dropped (null).
buildSubFolder(f) ==
  LET ind == {n \in f.entries : n[1] = "dir" /\ n[2] \in BDRIP_INDICATORS}
      firstIndicator == {n \in ind : \A y \in ind : NameRank(n) <= NameRank(y)}
  IN
  IF f = NoFolder THEN NoTreeFolder
  ELSE IF ind # {}
    THEN [name |-> f.name, files |-> firstIndicator, rip |-> TRUE]
  ELSE LET files == {n \in f.entries : isMovieFile(n) \/ isSubtitleFile(n)}
       IN IF files = {} THEN NoTreeFolder
          ELSE [name |-> f.name, files |-> files, rip |-> FALSE]

\* buildFolderStructure of the root: its files and its folder; loaded is
\* FALSE when the result is null
buildFolderStructure(l) ==
  LET files == {n \in l.root : isMovieFile(n) \/ isSubtitleFile(n)}
      sub == buildSubFolder(l.folder)
  IN [loaded |-> (files # {} \/ sub # NoTreeFolder), files |-> files, sub |-> sub]

\* The nodes of a loaded tree: the root, its files, its folder and the files
\* of the folder
RootNode == [dir |-> "none", name |-> <<"folder", "root">>]

FileNode(dir, n) == [dir |-> dir, name |-> n]

Nodes(t) ==
  IF ~t.loaded THEN {}
  ELSE {RootNode} \cup {FileNode("root", n) : n \in t.files}
       \cup (IF t.sub = NoTreeFolder THEN {}
             ELSE {FileNode("root", t.sub.name)}
                  \cup {FileNode("folder", n) : n \in t.sub.files})

\* ------------------------------------------------- the memoized lookups
Has(cache, key) == \E kv \in cache : kv[1] = key

\* What a cached lookup can return: the stored value on a hit, otherwise
\* whatever the collaborator answers
Answers(cache, key, values) ==
  IF Has(cache, key) THEN {kv[2] : kv \in {x \in cache : x[1] = key}}
  ELSE values

\* this.cache.set(key, result) after a miss
Put(cache, key, value) ==
  IF Has(cache, key) THEN cache ELSE cache \cup {<<key, value>>}

\* ------------------------------------------------------- the classifier
ItemTypes ==
  {"Folder", "SingleMovie", "TVShowSeriesRootFolder", "TVShowSeriesEpisode",
   "TVShowSeasonFolder", "BDRipRootFolder", "DVDRipRootFolder",
   "CollectionFolder", "SubtitleFile", "Other"}

FileScannerItem(name, itemType) == [name |-> name, itemType |-> itemType]

\* /^(.+)\s\((\d{4})\)\s\(IMDB\s([\d.]+)\)(\.\w+)$/
alreadyProcessedMatch(n) == n[1] = "canon"

\* buildFileName(title, year, rating, extension) for the movie found for n
formattedName(n) ==
  IF n[1] \in {"dir", "canondir", "folder"} THEN <<"canondir", n[2]>> ELSE <<"canon", n[2]>>

\* A parseFile that leaves a file it finds no movie for without an item
NotFoundUntyped(n) == NoItem

\* The item parseFile sets when neither lookup found a movie
NotFoundItem(n) == FileScannerItem(n, "Other")

\* FileScanner.parseFile: the item it sets on the file and the caches after
\* it, for every answer of its collaborators. seriesName is "none" outside
\* a series. Its three episode patterns are S01E01, "01 сер" and a leading
\* one- or two-digit number.
parseFile(n, seriesName, c) ==
  IF n[2] \in MarkerSkipList
    THEN {[item |-> NoItem, caches |-> c]}
  ELSE IF isSubtitleFile(n)
    THEN {[item |-> FileScannerItem(n, "SubtitleFile"), caches |-> c]}
  ELSE IF /\ seriesName # "none"
          /\ \/ n[1] \in {"numbered", "episode"}
             \/ n[1] = "canon" /\ n[2] = "12 Angry Men"
    THEN {[item |-> FileScannerItem(<<"episode", n[2]>>, "TVShowSeriesEpisode"),
           caches |-> c]}
  ELSE IF alreadyProcessedMatch(n)
    THEN {[item |-> FileScannerItem(n, "SingleMovie"),
           caches |-> [c EXCEPT !.tmdbMovie = Put(@, <<"title", n[2]>>, found)]] :
            found \in Answers(c.tmdbMovie, <<"title", n[2]>>, BOOLEAN)}
  ELSE UNION {
    IF found
      THEN {[item |-> FileScannerItem(formattedName(n), "SingleMovie"),
             caches |-> [c EXCEPT !.tmdbMovie = Put(@, <<"title", n[2]>>, found)]]}
      ELSE LET c1 == [c EXCEPT !.tmdbMovie = Put(@, <<"title", n[2]>>, found)]
           IN {[item |-> NotFoundItem(n), caches |-> c1]}
              \cup
              {[item |-> IF again THEN FileScannerItem(formattedName(n), "SingleMovie")
                                 ELSE NotFoundItem(n),
                caches |-> [c1 EXCEPT !.tmdbMovie = Put(@, <<"ai", n[2]>>, again)]] :
                 again \in Answers(c1.tmdbMovie, <<"ai", n[2]>>, BOOLEAN)}
    : found \in Answers(c.tmdbMovie, <<"title", n[2]>>, BOOLEAN)}

\* isSeasonFolder: some file matches /S\d{1,2}E\d{1,2}/i
isSeasonFolder(files) == \E n \in files : n[1] = "episode"

\* isBDRipFolder of FileScanner: /^(BDMV|CERTIFICATE|BACKUP)$/i on the names
\* of the files of the folder
isBDRipFolder(files) ==
  \E n \in files : n[2] \in {"BDMV", "CERTIFICATE", "BACKUP"}

\* /collection/i on the folder name
isCollectionFolder(name) == name[2] = "collection"

\* parseBDRipFolder: the formatted movie name when TMDb knows the title the
\* AI parser extracts from the folder name, the folder name otherwise
parseBDRipFolder(f, c) ==
  {[item |-> FileScannerItem(IF found THEN <<"folder", "rip.mkv">> ELSE f.name,
                             "BDRipRootFolder"),
    caches |-> [c EXCEPT !.tmdbMovie = Put(@, <<"folder", f.name[2]>>, found)]] :
     found \in Answers(c.tmdbMovie, <<"folder", f.name[2]>>, BOOLEAN)}

\* The series branch of parseFolder: TMDb, then transliteration and
\* Kinopoisk, then the AI; each of them names the folder after the series
parseSeriesFolder(f, c) ==
  UNION {
    LET c1 == [c EXCEPT !.tmdbTV = Put(@, <<"series", "Show">>, tv)]
    IN IF tv
         THEN {[item |-> FileScannerItem(<<"folder", "series">>, "TVShowSeriesRootFolder"),
                caches |-> c1]}
         ELSE LET c2 == [c1 EXCEPT !.transliteration =
                                     Put(@, <<"series", "Show">>, TRUE)]
              IN {[item |-> FileScannerItem(<<"folder", "series">>,
                                            "TVShowSeriesRootFolder"),
                   caches |-> [c2 EXCEPT !.kinopoisk = Put(@, <<"series", "Show">>, kp)]] :
                    kp \in Answers(c2.kinopoisk, <<"series", "Show">>, BOOLEAN)}
    : tv \in Answers(c.tmdbTV, <<"series", "Show">>, BOOLEAN)}

\* FileScanner.parseFolder
parseFolder(f, seriesName, c) ==
  IF isBDRipFolder(f.files) THEN parseBDRipFolder(f, c)
  ELSE IF seriesName # "none" /\ isSeasonFolder(f.files)
    THEN {[item |-> FileScannerItem(<<"folder", "season">>, "TVShowSeriesRootFolder"),
           caches |-> c]}
  ELSE UNION {
    LET c1 == [c EXCEPT !.folderAnalysis = Put(@, f.name, analysis)]
    IN IF analysis = "series" THEN parseSeriesFolder(f, c1)
       ELSE IF isCollectionFolder(f.name)
         THEN {[item |-> FileScannerItem(f.name, "CollectionFolder"), caches |-> c1]}
       ELSE {[item |-> FileScannerItem(f.name, "Folder"), caches |-> c1]}
    : analysis \in Answers(c.folderAnalysis, f.name, {"series", "other"})}

\* childSeriesName of parse: the name of the series when the folder was
\* typed a series root
childSeriesName(folderItem) ==
  IF folderItem.itemType = "TVShowSeriesRootFolder" THEN "Show" ELSE "none"

\* The order parse visits the nodes in: the files of the root, then the
\* folder (parseFolder) and its files
parseOrder(t) ==
  [i \in 1..Len(InOrder(t.files)) |-> FileNode("root", InOrder(t.files)[i])]
  \o (IF t.sub = NoTreeFolder THEN << >>
      ELSE <<FileNode("root", t.sub.name)>>
           \o [i \in 1..Len(InOrder(t.sub.files)) |->
                 FileNode("folder", InOrder(t.sub.files)[i])])

\* The order processFolder visits them in: the files of the root, then the
\* files of the folder and the folder itself
processOrder(t) ==
  [i \in 1..Len(InOrder(t.files)) |-> FileNode("root", InOrder(t.files)[i])]
  \o (IF t.sub = NoTreeFolder THEN << >>
      ELSE [i \in 1..Len(InOrder(t.sub.files)) |->
              FileNode("folder", InOrder(t.sub.files)[i])]
           \o <<FileNode("root", t.sub.name)>>)

isFolderNode(node) == node.name[1] = "folder"

\* organizeDirectory up to the parse: the tree is built from the disk; a
\* null tree ends the run
OrganizeStart ==
  /\ org.pc = "idle"
  /\ org.runs < MaxOrganizeRuns
  /\ LET t == buildFolderStructure(lib)
     IN /\ tree' = t
        /\ items' = [n \in Nodes(t) |-> NoItem]
        /\ org' = [pc |-> IF t.loaded THEN "parse" ELSE "idle",
                   todo |-> IF t.loaded THEN parseOrder(t) ELSE << >>,
                   runs |-> org.runs + 1, renamed |-> {}]
  /\ UNCHANGED <<lib, caches>>
  /\ UNCHANGED <<catalog, matcher, units>>

\* One parseFile or parseFolder of fileScanner.parse
ParseNext ==
  /\ org.pc = "parse"
  /\ org.todo # << >>
  /\ LET node == Head(org.todo)
         outcomes ==
           IF isFolderNode(node) THEN parseFolder(tree.sub, "none", caches)
           ELSE parseFile(node.name,
                          IF node.dir = "folder"
                            THEN childSeriesName(items[FileNode("root", tree.sub.name)])
                            ELSE "none",
                          caches)
     IN \E o \in outcomes :
          /\ items' = [items EXCEPT ![node] = o.item]
          /\ caches' = o.caches
  /\ org' = [org EXCEPT !.todo = Tail(@)]
  /\ UNCHANGED <<lib, tree>>
  /\ UNCHANGED <<catalog, matcher, units>>

\* parse has returned: processFolder(rootFolder) begins
BeginProcess ==
  /\ org.pc = "parse"
  /\ org.todo = << >>
  /\ org' = [org EXCEPT !.pc = "process", !.todo = processOrder(tree)]
  /\ UNCHANGED <<lib, tree, items, caches>>
  /\ UNCHANGED <<catalog, matcher, units>>

\* processFile: a file with an item that is neither a subtitle nor Other is
\* renamed to the name of its item, unless that name is taken
processFile(l, node, item) ==
  LET inFolder == node.dir = "folder"
      entries == IF inFolder THEN l.folder.entries ELSE l.root
      moved == (entries \ {node.name}) \cup {item.name}
  IN IF item.itemType \in {"none", "SubtitleFile", "Other"} THEN l
     ELSE IF item.name = node.name \/ item.name \in entries THEN l
     ELSE IF inFolder THEN [l EXCEPT !.folder.entries = moved]
     ELSE [l EXCEPT !.root = moved]

\* The name processFolderRename gives the folder: the item's name without
\* .mkv for a rip, without the ratings for a series
newFolderName(item) ==
  IF item.name = <<"folder", "rip.mkv">> THEN <<"folder", "rip">> ELSE item.name

\* processFolder's own rename, for a rip or a series root. The library has
\* one folder, so the new path never exists
processFolderRename(l, node, item) ==
  IF /\ item.itemType \in {"TVShowSeriesRootFolder", "BDRipRootFolder",
                            "DVDRipRootFolder"}
     /\ newFolderName(item) # node.name
    THEN [l EXCEPT !.folder.name = newFolderName(item)]
    ELSE l

\* One processFile or processFolderRename of processFolder
ProcessNext ==
  /\ org.pc = "process"
  /\ org.todo # << >>
  /\ LET node == Head(org.todo)
         l == IF isFolderNode(node) THEN processFolderRename(lib, node, items[node])
              ELSE processFile(lib, node, items[node])
     IN /\ lib' = l
        /\ org' = [org EXCEPT !.todo = Tail(@),
                              !.renamed = IF l = lib THEN @
                                          ELSE @ \cup {<<node.name, items[node].name>>}]
  /\ UNCHANGED <<tree, items, caches>>
  /\ UNCHANGED <<catalog, matcher, units>>

\* organizeDirectory returns its result; the organizer and its FileScanner
\* stay
OrganizeEnd ==
  /\ org.pc = "process"
  /\ org.todo = << >>
  /\ org' = [org EXCEPT !.pc = "idle"]
  /\ UNCHANGED <<lib, tree, items, caches>>
  /\ UNCHANGED <<catalog, matcher, units>>

\* The organizer by itself, run over every library
InitOrganizer ==
  /\ fs = {}
  /\ db = {}
  /\ nextId = 1
  /\ clock = 0
  /\ scan = IdleScan
  /\ retry = IdleRetry
  /\ fsChanges = 0
  /\ quiet = TRUE
  /\ matcher = IdleMatcher
  /\ lib \in Libraries
  /\ tree = NoTree
  /\ items = [n \in Nodes(NoTree) |-> NoItem]
  /\ caches = EmptyCaches
  /\ org = [pc |-> "idle", todo |-> << >>, runs |-> 0, renamed |-> {}]
  /\ UnitsIdle

NextOrganizer ==
  \/ OrganizeStart
  \/ ParseNext
  \/ BeginProcess
  \/ ProcessNext
  \/ OrganizeEnd

SpecOrg == InitOrganizer /\ [][NextOrganizer]_vars

\* Tasks one after the other, over a library whose root may be unreadable
\* when a scan starts
NextIO ==
  \/ Next
  \/ \E s \in ScanTriggers : NoTaskRunning /\ StartScanRootUnreadable(s)

SpecIO == Init /\ [][NextIO]_vars

\* ================================================================ claims
Active == findAll(db, "active")

Entry(id) == CHOOSE e \in db : e.id = id

HasEntry(id) == \E e \in db : e.id = id

\* C1: no two catalog entries with status active share the same currentPath
C1_ActivePathsUnique ==
  \A e1 \in Active : \A e2 \in Active :
    e1.currentPath = e2.currentPath => e1 = e2

\* Two active entries at different paths, and a scan whose insert of a
\* second row for an occupied path was refused
C1_Witness ==
  /\ Cardinality(Active) >= 2
  /\ \E s \in ScanTriggers : scan[s].last.how = "threw"

\* C2 as stated: a scan that runs after a completed scan with no change of
\* the library in between creates no entry and deletes none, neither softly
\* nor physically
C2_SecondScanTouchesNothing ==
  \A s \in ScanTriggers :
    (scan[s].pc = "done" /\ scan[s].second) =>
      /\ nextId = scan[s].firstId
      /\ scan[s].purged = {}
      /\ scan[s].result.deleted = 0

\* C2 amended: such a scan marks no entry deleted and keeps every entry that
\* was active as it is active; the only rows it removes are the error and
\* deleted entries of visited paths, and it inserts at most one row for each
\* row it removed
C2_SecondScanOnlyReprocesses ==
  \A s \in ScanTriggers :
    (scan[s].pc = "done" /\ scan[s].second) =>
      /\ scan[s].result.deleted = 0
      /\ scan[s].startMissing = {}
      /\ \A id \in scan[s].startActive : HasEntry(id) /\ Entry(id).status = "active"
      /\ scan[s].purged \cap scan[s].startActive = {}
      /\ nextId - scan[s].firstId <= Cardinality(scan[s].purged)

\* A second scan over an unchanged library that found active entries to
\* refresh and an error or deleted entry to process again
C2_Witness ==
  \E s \in ScanTriggers :
    /\ scan[s].pc = "done" /\ scan[s].second
    /\ scan[s].startActive # {}
    /\ scan[s].purged # {}
    /\ nextId > scan[s].firstId

\* C3: of the N entries active when a scan starts, exactly the M whose path
\* is no longer on disk are deleted (softly) when the scan has ended, and
\* the other N-M are still active
C3_ReconciliationDiff ==
  \A s \in ScanTriggers :
    scan[s].pc = "done" =>
      /\ \A id \in scan[s].startActive :
           /\ HasEntry(id)
           /\ Entry(id).status =
                IF id \in scan[s].startMissing THEN "deleted" ELSE "active"
      /\ scan[s].result.deleted = Cardinality(scan[s].startMissing)

\* A finished scan that started with active entries of both kinds
C3_Witness ==
  \E s \in ScanTriggers :
    /\ scan[s].pc = "done"
    /\ scan[s].startMissing # {}
    /\ scan[s].startActive \ scan[s].startMissing # {}

\* C4 as stated: no entry changes status from error or deleted to active by
\* being updated in place, in a scan or in the retry pass
C4_NoRevivalInPlace ==
  [][\A e \in db : \A f \in db' :
       (e.id = f.id /\ e.status \in {"error", "deleted"}) => f.status # "active"]_vars

\* C5: when a scan visits a path whose entry has status error or deleted,
\* the entry is removed and the path processed as one with no entry: the row
\* the item ends as is a new one, written from the visited file alone
C5_StaleEntryReplaced ==
  \A s \in ScanTriggers :
    scan[s].stale.id # 0 =>
      /\ scan[s].stale.status \in {"error", "deleted"}
      /\ ~HasEntry(scan[s].stale.id)
      /\ scan[s].last.how \in {"created", "quarantined"} =>
           /\ HasEntry(scan[s].last.id)
           /\ LET e == Entry(scan[s].last.id)
                  p == scan[s].last.path
              IN /\ e.id > scan[s].stale.id
                 /\ e.originalPath = p
                 /\ e.lastScanned = clock /\ e.updatedAt = clock
                 /\ e.status = "error" =>
                      e = Movie(e.id, p, p, "error", "file", 0, "none", FALSE,
                                e.errorMessage, clock)
                 /\ e.status = "active" =>
                      /\ e.genre = IF isTVSeries(p) THEN "TV Series" ELSE "movie"
                      /\ e.meta = scan[s].last.cand
                      /\ e.title = IF isTVSeries(p) THEN "parsed" ELSE "tmdb"

\* An entry that had been deleted or in error was removed and the item
\* ended as a new active entry
C5_Witness ==
  \E s \in ScanTriggers :
    /\ scan[s].stale.id # 0
    /\ scan[s].last.how = "created"
    /\ HasEntry(scan[s].last.id)
    /\ Entry(scan[s].last.id).status = "active"

\* C6 as stated: an item with a resolver candidate becomes an active entry
\* only if the validator returned isMatch=true for the candidate from tiers
\* 1-3 or from tier 4 above its threshold; any other candidate ends as an
\* error entry with the title-mismatch reason
C6_ValidationGate ==
  \A s \in ScanTriggers :
    (scan[s].last.cand # 0 /\ ~scan[s].last.validated) =>
      /\ scan[s].last.how = "quarantined"
      /\ HasEntry(scan[s].last.id)
      /\ Entry(scan[s].last.id).status = "error"
      /\ Entry(scan[s].last.id).errorMessage = "title mismatch"

\* C7: when the processing of a file has thrown, the scan still visits every
\* file of its list and still runs the soft-delete step before it returns
C7_ScanSurvivesItemFailure ==
  \A s \in ScanTriggers :
    /\ scan[s].failed # {} => scan[s].pc \in {"items", "resolve", "done"}
    /\ (scan[s].pc = "done" /\ scan[s].failed # {}) =>
         /\ scan[s].todo = {}
         /\ scan[s].marked

\* A finished scan in which a file threw and a file after it was processed
C7_Witness ==
  \E s \in ScanTriggers :
    /\ scan[s].pc = "done"
    /\ \E p \in scan[s].failed : \E q \in scan[s].visited : Rank(q) > Rank(p)
    /\ scan[s].marked

\* C8 as stated: at the end of a scan every visited path has a catalog entry
\* written by that scan, an error entry or an active one
C8_EveryVisitedPathHasEntry ==
  \A s \in ScanTriggers :
    scan[s].pc = "done" =>
      \A p \in scan[s].visited :
        \E e \in db :
          /\ e.lastScanned = clock
          /\ e.status \in {"active", "error"}
          /\ e.currentPath = p \/ e.originalPath = p

\* C9 as stated: at most one scan is in progress at any time
C9_AtMostOneScan ==
  Cardinality({s \in ScanTriggers : scan[s].pc # "idle"}) <= 1

Refreshed(s) ==
  /\ scan[s].pc = "items"
  /\ scan'[s].pc = "items"
  /\ scan'[s].visited # scan[s].visited
  /\ scan'[s].last.how = "refreshed"

\* C10 as stated: the refresh of an active entry changes nothing but the
\* poster field and the timestamps
C10_RefreshOnlyVolatile ==
  [][\A s \in ScanTriggers :
       Refreshed(s) =>
         \E old \in db : \E new \in db' :
           /\ old.id = scan'[s].last.id /\ new.id = old.id
           /\ db' \ {new} = db \ {old}
           /\ [new EXCEPT !.poster = old.poster, !.lastScanned = old.lastScanned,
                          !.updatedAt = old.updatedAt] = old]_vars

\* C10 amended: the refresh of an active entry changes nothing but the
\* poster field, the timestamps and, when the item is a TV series folder or
\* the entry has the genre "TV Series", the title
C10_RefreshVolatileOrSeriesTitle ==
  [][\A s \in ScanTriggers :
       Refreshed(s) =>
         \E old \in db : \E new \in db' :
           /\ old.id = scan'[s].last.id /\ new.id = old.id
           /\ db' \ {new} = db \ {old}
           /\ old.status = "active"
           /\ [new EXCEPT !.poster = old.poster, !.lastScanned = old.lastScanned,
                          !.updatedAt = old.updatedAt,
                          !.title = IF old.genre = "TV Series"
                                       \/ isTVSeries(scan'[s].last.path)
                                      THEN old.title ELSE @] = old]_vars

\* An active movie entry was refreshed by a later scan and so was a series
\* entry, whose title the refresh replaced
C10_Witness ==
  /\ \E s \in ScanTriggers :
       /\ scan[s].last.how = "refreshed"
       /\ HasEntry(scan[s].last.id)
       /\ Entry(scan[s].last.id).genre = "TV Series"
       /\ Entry(scan[s].last.id).title = "tmdb"
  /\ \E e \in Active : e.genre = "movie" /\ e.lastScanned = clock /\ e.id < nextId - 1

\* C11: a rename never replaces an existing file or folder. A step of a task
\* either leaves the library as it is or moves exactly one path to a path
\* that did not exist; and when the canonical name of the item a scan
\* accepted was already taken, the library is left as it was
C11_RenameNeverReplaces ==
  [][/\ fsChanges' = fsChanges =>
          \/ fs' = fs
          \/ \E p \in fs : \E q \in Paths \ fs : fs' = (fs \ {p}) \cup {q}
     /\ \A s \in ScanTriggers :
          (scan[s].pc = "resolve" /\ scan'[s].last.how \in {"created", "threw"}
             /\ scan'[s].last.cand # 0
             /\ buildFileName(scan'[s].last.cand) \in fs) =>
            (fs' = fs /\ ~scan'[s].last.renamed)]_vars

\* A scan accepted an item whose canonical name was taken by another file:
\* the rename was rejected and both files are still there
C11_Witness ==
  \E s \in ScanTriggers :
    /\ scan[s].last.how = "created"
    /\ ~scan[s].last.renamed
    /\ scan[s].last.path # buildFileName(scan[s].last.cand)
    /\ scan[s].last.path \in fs
    /\ buildFileName(scan[s].last.cand) \in fs

C13_RetryDecidesAsScan ==
  (retry.last.id # 0 /\ HasEntry(retry.last.id)
     /\ Entry(retry.last.id).status = "active") =>
    (retry.last.accepted /\ retry.last.validated)

\* C14 as stated: a scan whose root could not be read fails as a whole: it
\* does not run the soft-delete step and does not return as a normal scan
C14_UnreadableRootIsFatal ==
  \A s \in ScanTriggers :
    scan[s].rootUnreadable => (~scan[s].marked /\ scan[s].pc # "done")

\* C15 as stated: areSameMovie returns isMatch=true by the LLM tier only
\* when the confidence of the LLM clears the threshold of the caller
C15_LLMMatchClearsThreshold ==
  (matcher.pc = "returned" /\ matcher.result.method = "llm"
     /\ matcher.result.isMatch) =>
    matcher.result.confidence >= matcher.llmConfidenceThreshold


\* ------------------------------------------------------------------ C16
\* C16: a file whose name already matches the canonical pattern is never
\* renamed again by an organize run: classifying it again yields the
\* identical name, so every canonical name of the library is still there
\* after every step, and the item of a canonical file carries its name.
C16_CanonicalNeverRenamed ==
  [][/\ \A n \in lib.root \cup lib.folder.entries :
          alreadyProcessedMatch(n) => n \in lib'.root \cup lib'.folder.entries
     /\ \A node \in DOMAIN items' :
          (alreadyProcessedMatch(node.name) /\ items'[node] # NoItem)
            => items'[node].name = node.name]_vars

\* ------------------------------------------------------------------ C17
\* C17: a folder that contains a disc-structure marker directory, one the
\* loader reports as a rip folder, is classified as a rip root, whatever
\* else it holds: once the parse is over its item is a rip root.
C17_MarkerFolderIsRipRoot ==
  (org.pc = "process" /\ tree.loaded /\ tree.sub.rip)
    => items[FileNode("root", tree.sub.name)].itemType
         \in {"BDRipRootFolder", "DVDRipRootFolder"}

\* ------------------------------------------------------------------ C18
\* C18 as stated: after classification every file and folder node of the
\* scanned tree carries an ItemType.
C18_EveryNodeTyped ==
  org.pc = "process" => \A node \in Nodes(tree) : items[node].itemType \in ItemTypes

\* The nodes parse leaves without an item: the root it is called on, and a
\* rip marker named in the skip list of parseFile
Untyped(t) ==
  {RootNode} \cup {node \in Nodes(t) : node.name[2] \in MarkerSkipList}

\* C18 as the code has it: after classification every node of the tree
\* other than the root and the skip-listed rip markers carries exactly one
\* ItemType, a file that fits no rule being typed Other; the root and those
\* markers carry none.
C18_EveryNodeTypedButRootAndMarkers ==
  org.pc = "process" =>
    /\ \A node \in Nodes(tree) \ Untyped(tree) : items[node].itemType \in ItemTypes
    /\ \A node \in Untyped(tree) : items[node] = NoItem

\* A classified tree with a skip-listed marker, and a file that no lookup
\* found a movie for and that is typed Other
C18_Witness ==
  /\ org.pc = "process"
  /\ \E node \in Nodes(tree) : node.name = <<"dir", "BDMV">>
  /\ \E node \in Nodes(tree) :
       node.name = <<"messy", "The Matrix">> /\ items[node].itemType = "Other"

\* ------------------------------------------------------------------ C19
\* C19: once the loader recognizes a folder as a rip root it does not
\* descend into it: nothing inside the folder becomes an item of its own,
\* and nothing inside it is renamed.
C19_NothingInsideRipIsAnItem ==
  (tree.loaded /\ tree.sub.rip) =>
    /\ \A n \in tree.sub.files : items[FileNode("folder", n)] = NoItem
    /\ \A r \in org.renamed : r[1][1] # "dir"

\* ------------------------------------------------------------------ C20
\* C20: memoized lookups made during one run are never used by another:
\* between two runs of the organizer, and so at the start of every run and
\* after its end, the title-metadata, transliteration and folder-analysis
\* caches are empty.
C20_CachesScopedToOneRun ==
  org.pc = "idle" => caches = EmptyCaches

\* ------------------------------------------------------------------ C21
\* C21: within one scan the metadata provider is queried at most once for
\* any given (normalized title, year) pair.
C21_OneQueryPerTitleAndYear ==
  \A k \in DOMAIN lookup.asked : lookup.asked[k] <= 1

\* ------------------------------------------------------------------ C22
\* The ids of the results one of whose normalized titles (title or original
\* title) equals the normalized search title
ExactIds ==
  {resolver.results[i].id : i \in
     {j \in DOMAIN resolver.results :
        \/ normalizeTitle(resolver.results[j].title)
             = normalizeTitle(resolver.searchTitle)
        \/ normalizeTitle(resolver.results[j].original_title)
             = normalizeTitle(resolver.searchTitle)}}

\* C22: when at least one provider result has a normalized title equal to
\* the normalized search title, the resolver's choice is one of those
\* results; the whole response is the candidate pool only when no result
\* matches exactly (or all of them do).
C22_ExactMatchesArePreferred ==
  resolver.pc = "returned" =>
    /\ ExactIds # {} => resolver.bestMatch \in ExactIds
    /\ candidatePool(resolver.results, resolver.searchTitle) = resolver.results
         => (ExactIds = {} \/ Cardinality(ExactIds) = Len(resolver.results))

\* The resolver chose an exact match although the response lists a result
\* that is no exact match and has a higher score
C22_Witness ==
  /\ resolver.pc = "returned"
  /\ resolver.bestMatch \in ExactIds
  /\ \E i, j \in DOMAIN resolver.results :
       /\ resolver.results[i].id = resolver.bestMatch
       /\ resolver.results[j].id \notin ExactIds
       /\ score(resolver.results[j]) > score(resolver.results[i])

\* ------------------------------------------------------------------ C23
\* The pool the resolver chooses from
Pool ==
  yearFilter(candidatePool(resolver.results, resolver.searchTitle),
             resolver.searchYear)

\* 1000 for the expected language, plus log10(max(voteCount, 1)) * 100, plus
\* popularity * 0.5, plus rating * 5, in thousandths
Log10Score(m) ==
  (IF m.original_language = "en" THEN 1000000 ELSE 0)
  + log10Times100(IF m.vote_count > 1 THEN m.vote_count ELSE 1)
  + m.popularity * 500 + m.vote_average * 5000

\* C23 as stated: within the chosen pool the resolver returns the candidate
\* with the highest score, the score taking the natural logarithm of the
\* vote count, and among candidates with equal score the one listed first.
C23_HighestNaturalLogScoreWins ==
  (resolver.pc = "returned" /\ resolver.results # << >>) =>
    \E i \in DOMAIN Pool :
      /\ Pool[i].id = resolver.bestMatch
      /\ \A j \in DOMAIN Pool : scoreNaturalLog(Pool[j]) <= scoreNaturalLog(Pool[i])
      /\ \A j \in 1..(i - 1) : scoreNaturalLog(Pool[j]) < scoreNaturalLog(Pool[i])

\* C23 as the code has it: within the chosen pool the resolver returns the
\* candidate with the highest score, where score = 1000 if the result's
\* language is English, plus log10(max(voteCount, 1)) * 100, plus
\* popularity * 0.5, plus rating * 5; among candidates with equal score it
\* returns the one the provider listed first.
C23_HighestLog10ScoreWins ==
  (resolver.pc = "returned" /\ resolver.results # << >>) =>
    \E i \in DOMAIN Pool :
      /\ Pool[i].id = resolver.bestMatch
      /\ \A j \in DOMAIN Pool : Log10Score(Pool[j]) <= Log10Score(Pool[i])
      /\ \A j \in 1..(i - 1) : Log10Score(Pool[j]) < Log10Score(Pool[i])

\* The resolver returned the first of two candidates with the same, highest
\* score, from a pool with a third candidate of a lower score
C23_Witness ==
  /\ resolver.pc = "returned"
  /\ Len(Pool) = 3
  /\ \E i, j, k \in DOMAIN Pool :
       /\ i < j
       /\ Pool[i].id = resolver.bestMatch
       /\ Log10Score(Pool[i]) = Log10Score(Pool[j])
       /\ Log10Score(Pool[k]) < Log10Score(Pool[i])

\* ------------------------------------------------------------------ C24
\* C24: for any two titles whose normalized forms differ only by a trailing
\* "s" or "es", areSameMovie returns isMatch = FALSE.
C24_SingularNeverMatchesPlural ==
  (/\ titles.pc = "returned"
   /\ \/ isSingularVsPlural(normalize(titles.title1), normalize(titles.title2))
      \/ isSingularVsPlural(normalize(titles.title2), normalize(titles.title1)))
    => ~titles.result.isMatch

\* C25: name cleaning is idempotent: applying cleanMovieName to the clean name
\* it returned gives that clean name again.
C25_CleaningIsIdempotent ==
  parser.pc = "recleaned" => parser.again = parser.cleanName

\* C26: the cleaner removes the number a name begins with only when the name
\* matched the collection-item pattern or the episode pattern, and a title
\* that itself begins with a number keeps it in the clean name.
C26_NumberedTitleKeepsItsNumber ==
  parser.pc = "cleaned" =>
    LET name == withoutExtension(parser.fileName)
        number == SubSeq(parser.fileName, 1,
                         runLength(parser.fileName, 1, Digits))
    IN /\ (number # << >> /\ ~startsWith(parser.cleanName, number)) =>
            (movieCollectionItem(name) \/ episodePrefix(name))
       /\ parser.fileName \in {FileName.ThreeDaysProcessed,
                                FileName.ThreeDaysBare,
                                FileName.ThreeDaysRelease,
                                FileName.FiftySevenSeconds} =>
            startsWith(parser.cleanName, number)

\* C27: every name buildFileName produces from a title, year, rating and
\* extension the scan passes to it matches the pattern by which parseFile
\* recognizes a processed file.
C27_BuiltNameIsRecognized ==
  parser.pc = "matched" => parser.recognized

\* The entries a scan in progress has created or refreshed: every write of a
\* scan stamps lastScanned with the time of the scan
TouchedByScan == {e \in db : e.lastScanned = clock}

\* C28: an entry created or refreshed during a scan is never marked deleted
\* by that same scan, also when the item was renamed during the scan: when
\* markDeletedMovies runs, currentPaths contains the currentPath of every
\* such entry, and the step leaves the entry as it is.
C28_ScanKeepsItsOwnEntries ==
  [][\A s \in ScanTriggers :
       MarkDeleted(s) =>
         \A e \in TouchedByScan :
           e.currentPath \in scan[s].currentPaths /\ e \in db']_vars

\* The soft-delete step has marked an entry deleted in a scan that created an
\* active entry for an item it renamed
C28_Witness ==
  \E s \in ScanTriggers :
    /\ scan[s].pc = "done"
    /\ scan[s].result.deleted > 0
    /\ \E e \in TouchedByScan :
         /\ e.status = "active"
         /\ e.currentPath # e.originalPath
         /\ e.currentPath \in scan[s].currentPaths

\* C29 as stated: whenever a scan has renamed an item on disk, the catalog
\* holds when the scan ends an entry of that scan whose currentPath is the new
\* path, also when the catalog already had an entry at that path
C29_RenamedItemIsCatalogued ==
  \A s \in ScanTriggers :
    (scan[s].pc = "done" /\ scan[s].last.renamed) =>
      \E e \in TouchedByScan :
        e.currentPath = buildFileName(scan[s].last.cand)

\* C30 as stated: when two scans overlap, the catalog and the library end in
\* a state that the two scans run one after the other could have produced.
\* Scans run one after the other leave every active entry at a path that is
\* on disk, so the state scans leave behind, overlapping or not, is such a
\* state.
C30_OverlapEndsAsSerialScans ==
  quiet => \A e \in db : e.status = "active" => e.currentPath \in fs

====
